---- MODULE Spec2Model ----
(***************************************************************************)
(* Call orchestration and peer negotiation of the useWebRTC hook           *)
(* (src/src/hooks/useWebRTC.ts, lines 1-841).  Every participant runs one  *)
(* instance of the hook; the instances talk through the broadcast relay.   *)
(* A step of the model is one run-to-completion turn of the JavaScript     *)
(* event loop of one participant: the synchronous prefix of a handler, or  *)
(* the part of an async function between two awaits.                       *)
(***************************************************************************)
EXTENDS Integers, Sequences, FiniteSets, TLC

\* ---------------------------------------------------------------------------
\* Participants, bounds and program constants
\* ---------------------------------------------------------------------------

\* Participant ids, totally ordered by < (the code compares the id strings).
Users == {1, 2, 3}

\* Bound: room ids that initiateCall can generate (uuidv4 calls).
MaxCalls == 2

\* Bound: ICE candidates one connection gathers.
MaxCands == 3

\* Bound: event-loop turns of a participant that may run between a state
\* update and the effect that copies it into callStateRef (lines 82-86).
MaxLag == 1

\* Bound: video tracks toggleScreenShare deals with in the life of a hook.
MaxTracks == 3

\* Bound: control signals (call-accept, participant-joined) the relay hands
\* to handleSignal beyond the ones acceptCall sent (replays, other clients).
MaxStray == 2

\* for (let attempt = 0; attempt < 5; attempt++)
InviteAttempts == 5

Rooms == 1 .. MaxCalls

\* type CallState; 'ended' is never assigned.
CallStates == {"idle", "ringing", "connecting", "connected", "ended"}

\* ---------------------------------------------------------------------------
\* RTCPeerConnection objects
\* ---------------------------------------------------------------------------

\* new RTCPeerConnection(ICE_SERVERS): connectionState 'new', signalingState
\* 'stable', no descriptions.  rpc is the remote connection whose description
\* is set as remoteDescription (the content of the sdp), applied the
\* candidates handed to addIceCandidate in call order, gen the number of
\* local candidates gathered so far.  chain is the operations chain of the
\* connection: the createOffer/createAnswer/setLocalDescription/
\* setRemoteDescription/addIceCandidate calls that have not settled, each with
\* the continuation awaiting it; they settle in call order.  glare
\* (observation only) tells that the last offer event on this connection was
\* a remote offer handled while an own offer was outstanding.
NewPC(peerId) ==
  [peer |-> peerId, conn |-> "new", sig |-> "stable", local |-> "none",
   remote |-> "none", rpc |-> 0, applied |-> << >>, gen |-> 0,
   chain |-> << >>, glare |-> FALSE, vtrack |-> 0]

\* Mutant of pc.close(): the operations still chained settle all the same.
ClosePC_keep(c) == [c EXCEPT !.conn = "closed", !.sig = "closed"]

\* pc.close(): the promises of the operations still chained never settle, so
\* the continuations awaiting them never run.
ClosePC(c) == [c EXCEPT !.conn = "closed", !.sig = "closed", !.chain = << >>]

\* pc.setLocalDescription(offer) succeeds in stable / have-local-offer.
CanSLDOffer(c) == c.sig \in {"stable", "have-local-offer"}
SLDOffer(c) == [c EXCEPT !.sig = "have-local-offer", !.local = "offer"]

\* pc.setLocalDescription({type: 'rollback'}) succeeds with a pending offer.
CanRollback(c) == c.sig = "have-local-offer"
Rollback(c) == [c EXCEPT !.sig = "stable", !.local = "none"]

\* pc.setRemoteDescription(offer) succeeds in stable / have-remote-offer.
CanSRDOffer(c) == c.sig \in {"stable", "have-remote-offer"}
SRDOffer(c, from) == [c EXCEPT !.sig = "have-remote-offer", !.remote = "offer", !.rpc = from]

\* pc.setLocalDescription(answer) succeeds in have-remote-offer.
CanSLDAnswer(c) == c.sig = "have-remote-offer"
SLDAnswer(c) == [c EXCEPT !.sig = "stable", !.local = "answer"]

\* pc.setRemoteDescription(answer) succeeds in have-local-offer.
CanSRDAnswer(c) == c.sig = "have-local-offer"
SRDAnswer(c, from) == [c EXCEPT !.sig = "stable", !.remote = "answer", !.rpc = from]

\* pc.addIceCandidate(c): candidates are processed in call order (the
\* connection's operation chain); a closed connection rejects the call.
AddIce(c, cand) ==
  IF c.sig = "closed" THEN c ELSE [c EXCEPT !.applied = Append(@, cand)]

\* pc.remoteDescription && pc.remoteDescription.type
\* Mutant of the test for a remote description: always taken as present.
HasRemote_always(c) == c.remote = c.remote

HasRemote(c) == c.remote # "none"

\* ---------------------------------------------------------------------------
\* Hook state of one participant
\* ---------------------------------------------------------------------------

NoCall == [from |-> 0, roomId |-> 0, participants |-> << >>]

\* A suspended async continuation: k names the await it is parked on, the
\* other fields are the local variables the continuation still uses (peer,
\* pc: the peer id and the connection it holds; sdp: the remote connection of
\* the description being applied; i: loop index; room, list: room id and
\* id list of initiateCall/acceptCall; live: the flush loop still iterates
\* the array stored in pendingCandidates, else its own copy in list; next:
\* what the caller of flushCandidates does afterwards).
NoTask ==
  [k |-> "none", peer |-> 0, pc |-> 0, sdp |-> 0, i |-> 0, room |-> 0,
   list |-> << >>, live |-> FALSE, next |-> "none"]

PcTask(k, peerId, pc, sdp) ==
  [NoTask EXCEPT !.k = k, !.peer = peerId, !.pc = pc, !.sdp = sdp]

CallTask(k, peerId, room, list, i) ==
  [NoTask EXCEPT !.k = k, !.peer = peerId, !.room = room, !.list = list, !.i = i]

\* useWebRTC(myUserId): the state and refs right after the first render.
\* pcs is the heap of RTCPeerConnection objects this participant created
\* (peerConnections maps a peer id to an index of it, 0 for no entry);
\* streams records every MediaStream getUserMedia returned and whether its
\* tracks are live; subs are the call-room channels that are subscribed and
\* dispatch to handleSignal, pending those setupCallChannel created whose
\* subscribe callback has not reported SUBSCRIBED; timers are the armed ringing timeouts (by the
\* room of the initiateCall that armed them), fresh those of them armed
\* while the ref-syncing effect was pending; slip counts the turns that ran
\* since a state update that the ref-syncing effect has not yet seen;
\* nCleanup counts the runs of cleanup() since the last initiateCall or
\* acceptCall (observation only); arrived lists, per peer, the candidates
\* handleSignal received in this call and whether each came before the
\* remote description was set (observation only); fanout lists the signals
\* the last acceptCall has handed to channel.send (observation only).
\* tracks are the video tracks toggleScreenShare has dealt with: the display
\* and camera tracks it acquired, and the camera track of getMedia's stream
\* (kind "initial") once it was taken out of that stream; video is the
\* video track the local stream holds (an index of tracks, 0 for the camera
\* track the stream came with, whose state streams records together with the
\* microphone track); vtrack of a connection is the track its video sender
\* carries, in the same numbering.
InitHook ==
  [callState |-> "idle", callStateRef |-> "idle",
   localStreamRef |-> 0, streams |-> << >>,
   roomIdRef |-> 0, callChannelRef |-> 0, subs |-> {}, pending |-> {},
   peerConnections |-> [u \in Users |-> 0], pcs |-> << >>,
   pendingCandidates |-> [u \in Users |-> << >>],
   offerCreatedFor |-> {},
   incomingCall |-> NoCall, processedCalls |-> {},
   error |-> FALSE,
   tasks |-> {}, timers |-> {}, fresh |-> {}, slip |-> 0, nCleanup |-> 0,
   arrived |-> [u \in Users |-> << >>], fanout |-> << >>,
   isScreenSharing |-> FALSE, video |-> 0, tracks |-> << >>]

VARIABLES
  hook,      \* [Users -> hook state]
  net,       \* messages the relay has accepted and not yet delivered
  nextRoom,  \* number of room ids generated so far
  nStray,    \* control signals handed over beyond the ones sent
  last       \* the event-loop turn that produced this state (observation)

vars == <<hook, net, nextRoom, nStray, last>>

\* ---------------------------------------------------------------------------
\* Relay
\* ---------------------------------------------------------------------------

\* One copy of a broadcast, addressed by the relay to subscriber rcpt.
Msg(type, from, to, topic, sdp, cand, rcpt) ==
  [type |-> type, from |-> from, to |-> to, topic |-> topic, sdp |-> sdp,
   cand |-> cand, parts |-> << >>, rcpt |-> rcpt]

\* channel.send on 'call-room-<topic>' (broadcast, self: false): the relay
\* forwards a copy to every other participant subscribed at that moment;
\* nothing is stored for later subscribers.
Broadcast(sender, type, to, topic, sdp, cand) ==
  { Msg(type, sender, to, topic, sdp, cand, r) :
      r \in { u \in Users \ {sender} : topic \in hook[u].subs } }

\* ---------------------------------------------------------------------------
\* Helpers of the hook (pure: hook state in, hook state out)
\* ---------------------------------------------------------------------------

Min(a, b) == IF a < b THEN a ELSE b

\* Continuations that iterate the queue array of a peer keep the array
\* object when the map entry is removed: give them their own copy.
Detach(h, peers) ==
  [h EXCEPT !.pcs =
     [i \in DOMAIN h.pcs |->
        [h.pcs[i] EXCEPT !.chain =
           [n \in DOMAIN h.pcs[i].chain |->
              LET t == h.pcs[i].chain[n] IN
              IF t.k = "flush" /\ t.live /\ t.peer \in peers
                THEN [t EXCEPT !.live = FALSE, !.list = h.pendingCandidates[t.peer]]
                ELSE t]]]]

\* The continuation t awaits an operation it chains on connection pc.
Chain(h, pc, t) == [h EXCEPT !.pcs[pc].chain = Append(@, t)]

\* cleanup (lines 117-148)
cleanup(h0) ==
  LET h == Detach(h0, Users) IN
  [h EXCEPT
     !.pcs = [i \in DOMAIN h.pcs |->
                IF \E u \in Users : h.peerConnections[u] = i
                  THEN ClosePC(h.pcs[i]) ELSE h.pcs[i]],
     !.peerConnections = [u \in Users |-> 0],
     !.pendingCandidates = [u \in Users |-> << >>],
     !.offerCreatedFor = {},
     !.streams = [i \in DOMAIN h.streams |->
                    IF i = h.localStreamRef THEN "stopped" ELSE h.streams[i]],
     !.subs = h.subs \ {h.callChannelRef},
     !.callChannelRef = 0,
     !.localStreamRef = 0,
     !.callState = "idle",
     !.roomIdRef = 0,
     !.error = FALSE,
     !.nCleanup = Min(h.nCleanup + 1, 2),
     !.arrived = [u \in Users |-> << >>],
     !.tracks = [k \in DOMAIN h.tracks |->
                   IF h.localStreamRef # 0 /\ k = h.video
                     THEN [h.tracks[k] EXCEPT !.live = FALSE] ELSE h.tracks[k]],
     !.video = 0,
     !.isScreenSharing = FALSE]

\* makePeer (lines 151-228): the hook state afterwards and the connection
\* returned.
makePeer(h, peerId) ==
  LET e == h.peerConnections[peerId] IN
  IF e # 0 /\ h.pcs[e].conn \in {"connected", "connecting"}
    THEN [h |-> h, pc |-> e]
    ELSE LET pcs1 == IF e # 0 THEN [h.pcs EXCEPT ![e] = ClosePC(@)] ELSE h.pcs
             n == Len(pcs1) + 1
         IN [h |-> [h EXCEPT !.pcs = Append(pcs1, [NewPC(peerId) EXCEPT !.vtrack = h.video]),
                             !.peerConnections[peerId] = n],
             pc |-> n]

\* Mutant of sendOffer: the offer-sent flag is not looked at.
sendOffer_again(h, peerId, pc) ==
  Chain([h EXCEPT !.offerCreatedFor = @ \cup {peerId},
                  !.pcs[pc].glare = FALSE],
        pc, PcTask("createOffer", peerId, pc, 0))

\* sendOffer up to its first await, createOffer (lines 231-243).
sendOffer(h, peerId, pc) ==
  IF peerId \in h.offerCreatedFor
    THEN h
    ELSE Chain([h EXCEPT !.offerCreatedFor = @ \cup {peerId},
                         !.pcs[pc].glare = FALSE],
               pc, PcTask("createOffer", peerId, pc, 0))

\* flushCandidates up to its first await (lines 270-276); next is the
\* continuation of the caller once the flush is over.
flushCandidates(h, peerId, pc, next) ==
  LET queued == h.pendingCandidates[peerId] IN
  IF Len(queued) > 0
    THEN Chain([h EXCEPT !.pcs[pc] = AddIce(@, queued[1])], pc,
               [PcTask("flush", peerId, pc, 0) EXCEPT !.i = 1, !.live = TRUE, !.next = next])
    ELSE IF next = "createAnswer"
           THEN Chain(h, pc, PcTask("createAnswer", peerId, pc, 0))
           ELSE h

\* Mutants of the glare tie-break: the lesser id rolls back; every id rolls
\* back.
RollsBack_lesser(me, from) == me < from

RollsBack_always(me, from) == me = me \/ from = from

\* Glare tie-break: if (myUserIdRef.current > signal.from) (line 327)
RollsBack(me, from) == me > from

\* Mutant of the join rule: the higher id offers.
Offers_higher(me, from) == me > from

\* Join rule: if (myUserIdRef.current < signal.from) (line 303)
Offers(me, from) == me < from

\* Mutant of the answer guard: any link takes the answer.
AnswerExpected_any(h, e) == e # 0

\* Mutant of the answer guard: the answer is expected on a stable link.
AnswerExpected_stable(h, e) == e # 0 /\ h.pcs[e].sig = "stable"

\* Answer guard: if (pc && pc.signalingState === 'have-local-offer')
\* (lines 369-371)
AnswerExpected(h, e) == e # 0 /\ h.pcs[e].sig = "have-local-offer"

\* Mutant of the last-link test: tear down while links remain.
NoLinks_some(h) == \E u \in Users : h.peerConnections[u] # 0

\* peerConnections.current.size === 0 (lines 410, 214)
NoLinks(h) == \A u \in Users : h.peerConnections[u] = 0

\* Mutant of the addressing filter: every signal is taken.
NotForMe_none(me, m) == m.to \notin Users

\* if (signal.to !== myUserIdRef.current) return; (line 283), and
\* if (data.to !== myUserId) return; (line 768)
NotForMe(me, m) == m.to # me

\* Mutant of the end-signal branch: the link of the peer is left in place.
RemoteEnd_keep(h, from) ==
  IF NoLinks(h) THEN cleanup(h) ELSE h

\* The call-end / call-reject / call-busy branch of handleSignal
\* (lines 403-414).
RemoteEnd(h, from) ==
  LET e == h.peerConnections[from]
      h1 == IF e # 0
              THEN [h EXCEPT !.pcs[e] = ClosePC(@), !.peerConnections[from] = 0]
              ELSE h
  IN IF NoLinks(h1) THEN cleanup(h1) ELSE h1

\* handleSignal up to its first await (lines 282-416).
handleSignal(h, me, m) ==
  IF NotForMe(me, m) THEN h ELSE
  LET currentStream == h.localStreamRef
      e == h.peerConnections[m.from]
  IN
  CASE m.type = "call-accept" ->
         LET h1 == [h EXCEPT !.callState = "connecting"] IN
         IF currentStream = 0 THEN h1
         ELSE LET r == makePeer(h1, m.from) IN sendOffer(r.h, m.from, r.pc)
    [] m.type = "participant-joined" ->
         IF currentStream = 0 THEN h
         ELSE LET r == makePeer(h, m.from) IN
              IF Offers(me, m.from) THEN sendOffer(r.h, m.from, r.pc) ELSE r.h
    [] m.type = "offer" ->
         IF currentStream = 0 THEN h
         ELSE LET r == IF e = 0 \/ h.pcs[e].conn \in {"closed", "failed"}
                         THEN makePeer(h, m.from) ELSE [h |-> h, pc |-> e]
                  c == r.h.pcs[r.pc]
              IN IF c.sig = "have-local-offer"
                   THEN IF RollsBack(me, m.from)
                          THEN Chain([r.h EXCEPT !.pcs[r.pc].glare = TRUE], r.pc,
                                     PcTask("rollback", m.from, r.pc, m.sdp))
                          ELSE [r.h EXCEPT !.pcs[r.pc].glare = TRUE]
                   ELSE IF c.sig # "stable"
                          THEN r.h
                          ELSE Chain([r.h EXCEPT !.pcs[r.pc].glare = FALSE], r.pc,
                                     PcTask("offerSRD", m.from, r.pc, m.sdp))
    [] m.type = "answer" ->
         IF AnswerExpected(h, e)
           THEN Chain(h, e, PcTask("answerSRD", m.from, e, m.sdp))
           ELSE h
    [] m.type = "ice-candidate" ->
         IF e # 0 /\ HasRemote(h.pcs[e])
           THEN [h EXCEPT !.pcs[e] = AddIce(@, m.cand),
                          !.arrived[m.from] = Append(@, [c |-> m.cand, early |-> FALSE])]
           ELSE [h EXCEPT !.pendingCandidates[m.from] = Append(@, m.cand),
                          !.arrived[m.from] = Append(@, [c |-> m.cand, early |-> TRUE])]
    [] m.type \in {"call-end", "call-reject", "call-busy"} -> RemoteEnd(h, m.from)
    [] OTHER -> h

\* ---------------------------------------------------------------------------
\* Event-loop turns
\* ---------------------------------------------------------------------------

Ev(op, who, peer, arg) == [op |-> op, who |-> who, peer |-> peer, arg |-> arg]

\* A turn of p may run while the ref-syncing effect is pending only MaxLag
\* times in a row.
Ready(p) == hook[p].callStateRef = hook[p].callState \/ hook[p].slip < MaxLag

\* The turn of p ends in hook state h2 having sent the messages out.
Turn(p, h2, out, gone, ev) ==
  /\ Ready(p)
  /\ hook' = [hook EXCEPT ![p] =
                [h2 EXCEPT !.slip = IF hook[p].callStateRef = hook[p].callState
                                      THEN 0 ELSE hook[p].slip + 1]]
  /\ net' = (net \ gone) \cup out
  /\ last' = ev

\* useEffect(() => { callStateRef.current = callState; }, [callState])
SyncRefs(p) ==
  /\ hook[p].callStateRef # hook[p].callState
  /\ hook' = [hook EXCEPT ![p].callStateRef = hook[p].callState, ![p].slip = 0,
                          ![p].fresh = {}]
  /\ last' = Ev("sync", p, 0, 0)
  /\ UNCHANGED <<net, nextRoom, nStray>>

Without(h, t) == [h EXCEPT !.tasks = @ \ {t}]

\* channel.send on the channel object a continuation holds: a channel that
\* is still joined broadcasts; one that removeChannel has left may or may not
\* get the message out (sent), depending on the client library's fallback.
ChanSend(p, sent, type, to, room) ==
  IF sent THEN Broadcast(p, type, to, room, 0, << >>) ELSE {}

SentChoices(p, room) == IF room \in hook[p].subs THEN {TRUE} ELSE BOOLEAN

\* initiateCall up to the await of getMedia (lines 455-473).
InitiateCall(p, targetIds) ==
  /\ nextRoom < MaxCalls
  /\ LET h == hook[p]
         roomId == nextRoom + 1
     IN IF h.callStateRef # "idle"
          THEN /\ Turn(p, h, {}, {}, Ev("initiateCall-ignored", p, 0, 0))
               /\ UNCHANGED <<nextRoom, nStray>>
          ELSE /\ Turn(p, [h EXCEPT !.roomIdRef = roomId,
                                    !.callState = "ringing",
                                    !.error = FALSE,
                                    !.nCleanup = 0,
                                    !.tasks = @ \cup {CallTask("init_media", 0, roomId, targetIds, 0)}],
                       {}, {}, Ev("initiateCall", p, 0, roomId))
               /\ nextRoom' = roomId
               /\ UNCHANGED nStray

\* getMedia resolves (lines 89-114) inside initiateCall (472-478) or
\* acceptCall (549-556); on success setupCallChannel runs up to subscribe
\* (lines 419-450).
MediaDone(p, t, ok) ==
  /\ t \in hook[p].tasks
  /\ t.k \in {"init_media", "acc_media"}
  /\ LET h == Without(hook[p], t)
         n == Len(h.streams) + 1
         h1 == [h EXCEPT !.streams = Append(@, "live"), !.localStreamRef = n,
                         !.video = 0]
         h2 == [h1 EXCEPT !.subs = @ \ {h1.callChannelRef},
                          !.callChannelRef = 0,
                          !.pending = @ \cup {t.room},
                          !.tasks = @ \cup {[t EXCEPT !.k = IF t.k = "init_media"
                                                             THEN "init_chan" ELSE "acc_chan"]}]
     IN IF ok
          THEN Turn(p, h2, {}, {}, Ev("media-ok", p, 0, t.room))
          ELSE Turn(p, cleanup([h EXCEPT !.error = TRUE]), {}, {}, Ev("media-failed", p, 0, t.room))
  /\ UNCHANGED <<nextRoom, nStray>>

\* The subscribe callback of setupCallChannel fires (lines 440-450) and the
\* caller continues: initiateCall subscribes one invite channel per target
\* and arms the timeout (486-529), acceptCall starts its 500 ms wait (565).
ChannelDone(p, t, ok) ==
  /\ t \in hook[p].tasks
  /\ t.k \in {"init_chan", "acc_chan"}
  /\ LET h == Without(hook[p], t)
         h1 == [h EXCEPT !.subs = @ \cup {t.room}, !.callChannelRef = t.room,
                         !.pending = @ \ {t.room}]
         allPeers == <<p>> \o t.list
         invites == { CallTask("invite", t.list[j], t.room, allPeers, 0) : j \in DOMAIN t.list }
         h2 == IF t.k = "init_chan"
                 THEN [h1 EXCEPT !.tasks = @ \cup invites, !.timers = @ \cup {t.room},
                                 !.fresh = IF h.callStateRef # h.callState
                                             THEN @ \cup {t.room} ELSE @]
                 ELSE [h1 EXCEPT !.tasks = @ \cup {[t EXCEPT !.k = "acc_wait"]}]
     IN IF ok
          THEN Turn(p, h2, {}, {}, Ev("channel-ok", p, 0, t.room))
          ELSE Turn(p, cleanup([h EXCEPT !.error = TRUE]), {}, {}, Ev("channel-failed", p, 0, t.room))
  /\ UNCHANGED <<nextRoom, nStray>>

\* The subscribe callback reports SUBSCRIBED (lines 440-444) for a channel
\* whose promise the 15 s timer (435-437) has already rejected: nothing
\* removed the channel, the callback makes it the session channel.
LateSubscribed(p, r) ==
  /\ r \in hook[p].pending
  /\ \A t \in hook[p].tasks : ~(t.k \in {"init_chan", "acc_chan"} /\ t.room = r)
  /\ Turn(p, [hook[p] EXCEPT !.subs = @ \cup {r}, !.callChannelRef = r,
                             !.pending = @ \ {r}],
          {}, {}, Ev("late-subscribed", p, 0, r))
  /\ UNCHANGED <<nextRoom, nStray>>

\* Mutant of the loop test: one more attempt.
MoreInvites_late(i) == i < InviteAttempts

\* attempt++; attempt < 5 (line 496), after attempt i (counted from 0).
MoreInvites(i) == i + 1 < InviteAttempts

\* One attempt of the invite loop (lines 493-519) on 'incoming-<target>'.
InviteStep(p, t) ==
  /\ t \in hook[p].tasks
  /\ t.k = "invite"
  /\ LET h == Without(hook[p], t)
         m == [Msg("call-invite", p, t.peer, t.room, 0, << >>, t.peer) EXCEPT !.parts = t.list]
         h2 == IF MoreInvites(t.i)
                 THEN [h EXCEPT !.tasks = @ \cup {[t EXCEPT !.i = t.i + 1]}]
                 ELSE h
     IN Turn(p, h2, {m}, {}, Ev("invite", p, t.peer, t.i + 1))
  /\ UNCHANGED <<nextRoom, nStray>>

\* Mutant of the dedup test: no invitation counts as processed.
Processed_never(h, m) == m.topic \in {}

\* if (processedCalls.has(data.roomId)) return; (line 771)
Processed(h, m) == m.topic \in h.processedCalls

\* The incoming call listener (lines 763-792).
IncomingInvite(p, m) ==
  /\ m \in net
  /\ m.type = "call-invite"
  /\ m.rcpt = p
  /\ LET h == hook[p] IN
     IF NotForMe(p, m) \/ Processed(h, m)
       THEN Turn(p, h, {}, {m}, Ev("invite-dropped", p, m.from, m.topic))
       ELSE LET h1 == [h EXCEPT !.processedCalls = @ \cup {m.topic},
                                !.tasks = @ \cup {CallTask("dedup", 0, m.topic, << >>, 0)}]
            IN IF h.callStateRef # "idle"
                 THEN Turn(p, h1, {}, {m}, Ev("invite-busy", p, m.from, m.topic))
                 ELSE Turn(p, [h1 EXCEPT !.incomingCall =
                                  [from |-> m.from, roomId |-> m.topic, participants |-> m.parts]],
                           {}, {m}, Ev("invite-shown", p, m.from, m.topic))
  /\ UNCHANGED <<nextRoom, nStray>>

\* setTimeout(() => processedCalls.delete(data.roomId), 30000) (line 773):
\* the 30 s window outlasts the 5 x 600 ms of retransmission.
ExpireDedup(p, t) ==
  /\ t \in hook[p].tasks
  /\ t.k = "dedup"
  /\ \A q \in Users : \A x \in hook[q].tasks : ~(x.k = "invite" /\ x.room = t.room /\ x.peer = p)
  /\ \A m \in net : ~(m.type = "call-invite" /\ m.topic = t.room /\ m.rcpt = p)
  /\ Turn(p, [Without(hook[p], t) EXCEPT !.processedCalls = @ \ {t.room}], {}, {},
          Ev("dedup-expired", p, 0, t.room))
  /\ UNCHANGED <<nextRoom, nStray>>

\* acceptCall up to the await of getMedia (lines 533-550).
AcceptCall(p) ==
  /\ hook[p].incomingCall # NoCall
  /\ LET h == hook[p]
         ic == h.incomingCall
         otherPeers == SelectSeq(ic.participants, LAMBDA x : x # p)
     IN Turn(p, [h EXCEPT !.roomIdRef = ic.roomId,
                          !.callState = "connecting",
                          !.incomingCall = NoCall,
                          !.error = FALSE,
                          !.nCleanup = 0,
                          !.fanout = << >>,
                          !.tasks = @ \cup {CallTask("acc_media", ic.from, ic.roomId, otherPeers, 0)}],
             {}, {}, Ev("acceptCall", p, ic.from, ic.roomId))
  /\ UNCHANGED <<nextRoom, nStray>>

\* Mutant of the notification loop: the caller is notified as well.
Others_all(list, callerId) == SelectSeq(list, LAMBDA x : x \in Users)

\* The peers the loop notifies: if (peerId !== callerId) (line 582)
Others(list, callerId) == SelectSeq(list, LAMBDA x : x # callerId)

\* acceptCall after the 500 ms wait: call-accept to the caller (lines 565-578).
AcceptSend(p, t, sent) ==
  /\ t \in hook[p].tasks
  /\ t.k = "acc_wait"
  /\ sent \in SentChoices(p, t.room)
  /\ LET h == [Without(hook[p], t) EXCEPT
                 !.fanout = Append(@, [type |-> "call-accept", to |-> t.peer])]
         rest == Others(t.list, t.peer)
         h2 == IF Len(rest) > 0
                 THEN [h EXCEPT !.tasks = @ \cup {[t EXCEPT !.k = "acc_pj", !.list = rest, !.i = 0]}]
                 ELSE h
     IN Turn(p, h2, ChanSend(p, sent, "call-accept", t.peer, t.room), {},
             Ev("accept-sent", p, t.peer, t.room))
  /\ UNCHANGED <<nextRoom, nStray>>

\* One round of the notification loop of acceptCall (lines 581-596).
JoinedSend(p, t, sent) ==
  /\ t \in hook[p].tasks
  /\ t.k = "acc_pj"
  /\ sent \in SentChoices(p, t.room)
  /\ LET peerId == t.list[t.i + 1]
         h == [Without(hook[p], t) EXCEPT
                 !.fanout = Append(@, [type |-> "participant-joined", to |-> peerId])]
         h2 == IF t.i + 1 < Len(t.list)
                 THEN [h EXCEPT !.tasks = @ \cup {[t EXCEPT !.i = t.i + 1]}]
                 ELSE h
     IN Turn(p, h2, ChanSend(p, sent, "participant-joined", peerId, t.room), {},
             Ev("joined-sent", p, peerId, t.room))
  /\ UNCHANGED <<nextRoom, nStray>>

\* rejectCall up to the subscribe of the temporary channel (lines 600-627).
RejectCall(p) ==
  /\ hook[p].incomingCall # NoCall
  /\ LET h == hook[p]
         ic == h.incomingCall
     IN Turn(p, [h EXCEPT !.incomingCall = NoCall,
                          !.tasks = @ \cup {CallTask("reject", ic.from, ic.roomId, << >>, 0)}],
             {}, {}, Ev("rejectCall", p, ic.from, ic.roomId))
  /\ UNCHANGED <<nextRoom, nStray>>

\* The temporary channel of rejectCall is subscribed (lines 610-624).
RejectSend(p, t) ==
  /\ t \in hook[p].tasks
  /\ t.k = "reject"
  /\ Turn(p, Without(hook[p], t), Broadcast(p, "call-reject", t.peer, t.room, 0, << >>), {},
          Ev("reject-sent", p, t.peer, t.room))
  /\ UNCHANGED <<nextRoom, nStray>>

\* The messages endCall sends before cleanup (lines 634-647).
EndMsgs(p) ==
  LET h == hook[p] IN
  UNION { IF h.peerConnections[u] # 0 /\ h.callChannelRef # 0 /\ h.roomIdRef # 0
            THEN Broadcast(p, "call-end", u, h.callChannelRef, 0, << >>)
            ELSE {} : u \in Users }

\* endCall (lines 630-650)
EndCall(p) ==
  /\ Turn(p, cleanup(hook[p]), EndMsgs(p), {}, Ev("endCall", p, 0, 0))
  /\ UNCHANGED <<nextRoom, nStray>>

\* Mutant of the timeout: the callback tests for the wrong state.
TimerFire_connecting(p, room) ==
  /\ room \in hook[p].timers
  /\ room \notin hook[p].fresh
  /\ LET h == [hook[p] EXCEPT !.timers = @ \ {room}] IN
     IF h.callStateRef = "connecting"
       THEN Turn(p, cleanup(h), {}, {}, Ev("timeout", p, 0, room))
       ELSE Turn(p, h, {}, {}, Ev("timer-ignored", p, 0, room))
  /\ UNCHANGED <<nextRoom, nStray>>

\* The timeout armed by initiateCall fires (lines 524-529), 60 s after it
\* was armed: an effect that was pending then has run by now.
TimerFire(p, room) ==
  /\ room \in hook[p].timers
  /\ room \notin hook[p].fresh
  /\ LET h == [hook[p] EXCEPT !.timers = @ \ {room}] IN
     IF h.callStateRef = "ringing"
       THEN Turn(p, cleanup(h), {}, {}, Ev("timeout", p, 0, room))
       ELSE Turn(p, h, {}, {}, Ev("timer-ignored", p, 0, room))
  /\ UNCHANGED <<nextRoom, nStray>>

\* The relay delivers a broadcast to the call channel of p, which hands it
\* to handleSignal (lines 432-434, 282-416).
HandleSig(p, m) ==
  /\ m \in net
  /\ m.rcpt = p
  /\ m.type # "call-invite"
  /\ m.topic \in hook[p].subs
  /\ Turn(p, handleSignal(hook[p], p, m), {}, {m}, Ev(m.type, p, m.from, m.sdp))
  /\ UNCHANGED <<nextRoom, nStray>>

\* handleSignal is handed a control signal that no acceptCall of this run
\* sent (a replay, or another client on the topic).
StraySignal(p, from, type) ==
  /\ nStray < MaxStray
  /\ from # p
  /\ type \in {"call-accept", "participant-joined"}
  /\ hook[p].callChannelRef # 0
  /\ Turn(p, handleSignal(hook[p], p, Msg(type, from, p, hook[p].callChannelRef, 0, << >>, p)),
          {}, {}, Ev(type, p, from, 0))
  /\ nStray' = nStray + 1
  /\ UNCHANGED nextRoom

\* The relay is best-effort: a message may be lost.
Lose(m) ==
  /\ m \in net
  /\ net' = net \ {m}
  /\ last' = Ev("lost", m.rcpt, m.from, 0)
  /\ UNCHANGED <<hook, nextRoom, nStray>>

\* A broadcast for a channel the recipient has removed is discarded.
DropStale(m) ==
  /\ m \in net
  /\ m.type # "call-invite"
  /\ m.topic \notin hook[m.rcpt].subs
  /\ net' = net \ {m}
  /\ last' = Ev("stale", m.rcpt, m.from, 0)
  /\ UNCHANGED <<hook, nextRoom, nStray>>

\* The operation at the head of the chain of connection i of p settles and
\* the continuation awaiting it runs up to its next await.
Head1(p, i, k) ==
  /\ i \in DOMAIN hook[p].pcs
  /\ Len(hook[p].pcs[i].chain) > 0
  /\ hook[p].pcs[i].chain[1].k = k

Pop(h, i) == [h EXCEPT !.pcs[i].chain = Tail(@)]

\* sendOffer: createOffer settles, setLocalDescription is called (240-244).
OfferCreated(p, i) ==
  /\ Head1(p, i, "createOffer")
  /\ LET t == hook[p].pcs[i].chain[1] IN
     Turn(p, Chain(Pop(hook[p], i), i, [t EXCEPT !.k = "offerSLD"]), {}, {},
          Ev("offer-created", p, t.peer, i))
  /\ UNCHANGED <<nextRoom, nStray>>

\* sendOffer: setLocalDescription settles and the 200 ms delay starts
\* (lines 244-247), or it throws (catch, lines 263-266).
OfferSet(p, i) ==
  /\ Head1(p, i, "offerSLD")
  /\ LET t == hook[p].pcs[i].chain[1]
         h == Pop(hook[p], i)
         c == h.pcs[i]
     IN IF CanSLDOffer(c)
          THEN Turn(p, [h EXCEPT !.pcs[i] = SLDOffer(c),
                                 !.tasks = @ \cup {[t EXCEPT !.k = "offerDelay"]}],
                    {}, {}, Ev("offer-set", p, t.peer, i))
          ELSE Turn(p, [h EXCEPT !.offerCreatedFor = @ \ {t.peer}],
                    {}, {}, Ev("offer-error", p, t.peer, i))
  /\ UNCHANGED <<nextRoom, nStray>>

\* sendOffer after the 200 ms delay (lines 249-262).
OfferSend(p, t) ==
  /\ t \in hook[p].tasks
  /\ t.k = "offerDelay"
  /\ LET h == Without(hook[p], t) IN
     Turn(p, h,
          IF h.callChannelRef # 0
            THEN Broadcast(p, "offer", t.peer, h.callChannelRef, t.pc, << >>) ELSE {},
          {}, Ev("offer-sent", p, t.peer, t.pc))
  /\ UNCHANGED <<nextRoom, nStray>>

\* handleSignal 'offer': the rollback settles (lines 329-342).
RollbackDone(p, i) ==
  /\ Head1(p, i, "rollback")
  /\ LET t == hook[p].pcs[i].chain[1]
         h == Pop(hook[p], i)
         c == h.pcs[i]
     IN IF CanRollback(c)
          THEN Turn(p, Chain([h EXCEPT !.pcs[i] = Rollback(c),
                                       !.offerCreatedFor = @ \ {t.peer}],
                             i, [t EXCEPT !.k = "offerSRD"]),
                    {}, {}, Ev("rolled-back", p, t.peer, i))
          ELSE Turn(p, h, {}, {}, Ev("rollback-error", p, t.peer, i))
  /\ UNCHANGED <<nextRoom, nStray>>

\* handleSignal 'offer': setRemoteDescription settles and flushCandidates
\* starts (lines 342-343).
OfferApplied(p, i) ==
  /\ Head1(p, i, "offerSRD")
  /\ LET t == hook[p].pcs[i].chain[1]
         h == Pop(hook[p], i)
         c == h.pcs[i]
     IN IF CanSRDOffer(c)
          THEN Turn(p, flushCandidates([h EXCEPT !.pcs[i] = SRDOffer(c, t.sdp)],
                                       t.peer, i, "createAnswer"),
                    {}, {}, Ev("offer-applied", p, t.peer, i))
          ELSE Turn(p, h, {}, {}, Ev("offer-apply-error", p, t.peer, i))
  /\ UNCHANGED <<nextRoom, nStray>>

\* flushCandidates: one addIceCandidate settles (lines 274-278); the loop
\* hands over the next element of the array or, at its end, deletes the map
\* entry and returns to its caller.
FlushStep(p, i) ==
  /\ Head1(p, i, "flush")
  /\ LET t == hook[p].pcs[i].chain[1]
         h == Pop(hook[p], i)
         queued == IF t.live THEN h.pendingCandidates[t.peer] ELSE t.list
         hd == [Detach(h, {t.peer}) EXCEPT !.pendingCandidates[t.peer] = << >>]
     IN IF t.i < Len(queued)
          THEN Turn(p, Chain([h EXCEPT !.pcs[i] = AddIce(@, queued[t.i + 1])],
                             i, [t EXCEPT !.i = t.i + 1]),
                    {}, {}, Ev("flush-next", p, t.peer, i))
          ELSE Turn(p, IF t.next = "createAnswer"
                         THEN Chain(hd, i, PcTask("createAnswer", t.peer, i, 0))
                         ELSE hd,
                    {}, {}, Ev("flush-done", p, t.peer, i))
  /\ UNCHANGED <<nextRoom, nStray>>

\* handleSignal 'offer': createAnswer settles, setLocalDescription is
\* called (lines 345-346).
AnswerCreated(p, i) ==
  /\ Head1(p, i, "createAnswer")
  /\ LET t == hook[p].pcs[i].chain[1]
         h == Pop(hook[p], i)
     IN IF h.pcs[i].sig \in {"have-remote-offer", "have-local-pranswer"}
          THEN Turn(p, Chain(h, i, [t EXCEPT !.k = "answerSLD"]), {}, {},
                    Ev("answer-created", p, t.peer, i))
          ELSE Turn(p, h, {}, {}, Ev("answer-error", p, t.peer, i))
  /\ UNCHANGED <<nextRoom, nStray>>

\* handleSignal 'offer': setLocalDescription(answer) settles and the answer
\* is sent (lines 346-361).
AnswerSet(p, i) ==
  /\ Head1(p, i, "answerSLD")
  /\ LET t == hook[p].pcs[i].chain[1]
         h == Pop(hook[p], i)
         c == h.pcs[i]
     IN IF CanSLDAnswer(c)
          THEN Turn(p, [h EXCEPT !.pcs[i] = SLDAnswer(c)],
                    IF h.callChannelRef # 0
                      THEN Broadcast(p, "answer", t.peer, h.callChannelRef, i, << >>) ELSE {},
                    {}, Ev("answer-sent", p, t.peer, i))
          ELSE Turn(p, h, {}, {}, Ev("answer-set-error", p, t.peer, i))
  /\ UNCHANGED <<nextRoom, nStray>>

\* handleSignal 'answer': setRemoteDescription settles and flushCandidates
\* starts (lines 373-375).
AnswerApplied(p, i) ==
  /\ Head1(p, i, "answerSRD")
  /\ LET t == hook[p].pcs[i].chain[1]
         h == Pop(hook[p], i)
         c == h.pcs[i]
     IN IF CanSRDAnswer(c)
          THEN Turn(p, flushCandidates([h EXCEPT !.pcs[i] = SRDAnswer(c, t.sdp)],
                                       t.peer, i, "none"),
                    {}, {}, Ev("answer-applied", p, t.peer, i))
          ELSE Turn(p, h, {}, {}, Ev("answer-apply-error", p, t.peer, i))
  /\ UNCHANGED <<nextRoom, nStray>>

\* pc.onicecandidate (lines 172-186): gathering starts with the local
\* description.
IceCandidate(p, i) ==
  /\ i \in DOMAIN hook[p].pcs
  /\ LET h == hook[p]
         c == h.pcs[i]
     IN /\ c.sig # "closed"
        /\ c.local # "none"
        /\ c.gen < MaxCands
        /\ Turn(p, [h EXCEPT !.pcs[i].gen = c.gen + 1],
                IF h.callChannelRef # 0
                  THEN Broadcast(p, "ice-candidate", c.peer, h.callChannelRef, 0, <<i, c.gen + 1>>)
                  ELSE {},
                {}, Ev("icecandidate", p, c.peer, i))
  /\ UNCHANGED <<nextRoom, nStray>>

\* The two connections hold each other's descriptions of one offer/answer
\* exchange.
Linked(p, i) ==
  LET c == hook[p].pcs[i]
      q == c.peer
      j == c.rpc
  IN /\ c.sig = "stable"
     /\ j \in DOMAIN hook[q].pcs
     /\ hook[q].pcs[j].peer = p
     /\ hook[q].pcs[j].rpc = i
     /\ hook[q].pcs[j].sig = "stable"
     /\ {c.local, hook[q].pcs[j].local} = {"offer", "answer"}
     /\ {c.remote, hook[q].pcs[j].remote} = {"offer", "answer"}
     /\ c.local # c.remote

\* Mutant of the test of line 214: tear down only an idle session.
TearsDown_idle(h) == NoLinks(h) /\ h.callStateRef = "idle"

\* peerConnections.current.size === 0 && callStateRef.current !== 'idle'
\* (line 214)
TearsDown(h) == NoLinks(h) /\ h.callStateRef # "idle"

\* pc.onconnectionstatechange (lines 202-220) after the transports moved the
\* connection to state to.
ConnectionState(p, i, to) ==
  /\ i \in DOMAIN hook[p].pcs
  /\ LET h == hook[p]
         c == h.pcs[i]
         h1 == [h EXCEPT !.pcs[i].conn = to]
         h2 == [h1 EXCEPT !.peerConnections[c.peer] = 0]
     IN /\ \/ c.conn = "new" /\ to = "connecting" /\ c.local # "none" /\ c.remote # "none"
           \/ c.conn = "connecting" /\ to = "connected" /\ Linked(p, i)
           \/ c.conn \in {"connecting", "connected"} /\ to = "failed"
        /\ CASE to = "connected" ->
                  Turn(p, [h1 EXCEPT !.callState = "connected"], {}, {}, Ev("pc-connected", p, c.peer, i))
             [] to = "failed" ->
                  Turn(p, IF TearsDown(h2) THEN cleanup(h2) ELSE h2,
                       {}, {}, Ev("pc-failed", p, c.peer, i))
             [] OTHER -> Turn(p, h1, {}, {}, Ev("pc-connecting", p, c.peer, i))
  /\ UNCHANGED <<nextRoom, nStray>>

\* ---------------------------------------------------------------------------
\* Specifications
\* ---------------------------------------------------------------------------

Init ==
  /\ hook = [u \in Users |-> InitHook]
  /\ net = {}
  /\ nextRoom = 0
  /\ nStray = 0
  /\ last = Ev("init", 0, 0, 0)

\* The continuations of the offer/answer exchange (every await of sendOffer
\* and of the offer and answer branches of handleSignal).
Negotiate(p) ==
  \/ \E t \in hook[p].tasks : OfferSend(p, t)
  \/ \E i \in DOMAIN hook[p].pcs :
       \/ OfferCreated(p, i)
       \/ OfferSet(p, i)
       \/ RollbackDone(p, i)
       \/ OfferApplied(p, i)
       \/ AnswerCreated(p, i)
       \/ AnswerSet(p, i)
       \/ AnswerApplied(p, i)

\* The two participants of a 1:1 call.
Pair == {1, 2}

\* The invitations are out: no attempt is left to send or to deliver.
InvitesOver ==
  /\ \A u \in Users : \A t \in hook[u].tasks : t.k # "invite"
  /\ \A m \in net : m.type # "call-invite"

\* Participant 1 calls participant 2 once, who accepts once the 5 x 600 ms of
\* invitations are over; the relay is reliable here and hands over stray
\* control signals; media and channel setup succeed.
NextSig ==
  \/ nextRoom = 0 /\ InitiateCall(1, <<2>>)
  \/ \E p \in Pair : \E t \in hook[p].tasks : MediaDone(p, t, TRUE)
  \/ \E p \in Pair : \E t \in hook[p].tasks : ChannelDone(p, t, TRUE)
  \/ \E p \in Pair : \E t \in hook[p].tasks : InviteStep(p, t)
  \/ \E p \in Pair : \E m \in net : IncomingInvite(p, m)
  \/ \E p \in Pair : InvitesOver /\ AcceptCall(p)
  \/ \E p \in Pair : \E t \in hook[p].tasks : AcceptSend(p, t, TRUE)
  \/ \E p \in Pair : \E m \in net : HandleSig(p, m)
  \/ \E p \in Pair : \E q \in Pair : \E ty \in {"call-accept", "participant-joined"} : StraySignal(p, q, ty)
  \/ \E p \in Pair : Negotiate(p)
  \/ \E p \in Pair : SyncRefs(p)

SpecSig == Init /\ [][NextSig]_vars

\* ---------------------------------------------------------------------------
\* Glare (C1, C2)
\* ---------------------------------------------------------------------------

\* The link p currently holds for peer q (0: none).
LinkOf(p, q) == hook[p].peerConnections[q]

\* No continuation of p still works on connection i.
Settled(p, i) ==
  /\ hook[p].pcs[i].chain = << >>
  /\ \A t \in hook[p].tasks : t.pc # i

SdpInFlight(p, q) ==
  \E m \in net : m.type \in {"offer", "answer"} /\ {m.from, m.to} = {p, q}

\* p's connection i made the offer and q's connection j answered it, and
\* both applied the other's description.
OfferAnswerPair(p, i, q, j) ==
  LET c == hook[p].pcs[i]
      d == hook[q].pcs[j]
  IN /\ c.sig = "stable" /\ c.local = "offer" /\ c.remote = "answer" /\ c.rpc = j
     /\ d.sig = "stable" /\ d.local = "answer" /\ d.remote = "offer" /\ d.rpc = i

\* Both sides of the link 1-2 handled the other's offer while their own
\* offer was outstanding, and all the work this started is over.
GlareSettled ==
  /\ LinkOf(1, 2) # 0
  /\ LinkOf(2, 1) # 0
  /\ hook[1].pcs[LinkOf(1, 2)].glare
  /\ hook[2].pcs[LinkOf(2, 1)].glare
  /\ Settled(1, LinkOf(1, 2))
  /\ Settled(2, LinkOf(2, 1))
  /\ ~SdpInFlight(1, 2)

\* C1 as stated: after a glare between A = 1 and B = 2 the offer of B (the
\* greater id) prevails, A having answered it.
C1_GreaterOfferPrevails ==
  GlareSettled => OfferAnswerPair(2, LinkOf(2, 1), 1, LinkOf(1, 2))

\* C1 amended: after a glare between A = 1 and B = 2, in which each side
\* handled the other's offer while its own offer was outstanding, exactly one
\* offer/answer pair is completed on the link and it is the offer of A (the
\* lesser id) that prevails: B rolled back and answered it, A answered
\* nothing, whatever the interleaving.
C1_LesserOfferPrevails ==
  GlareSettled =>
    /\ OfferAnswerPair(1, LinkOf(1, 2), 2, LinkOf(2, 1))
    /\ ~OfferAnswerPair(2, LinkOf(2, 1), 1, LinkOf(1, 2))
    /\ hook[1].pcs[LinkOf(1, 2)].local # "answer"

C1_Witness ==
  /\ GlareSettled
  /\ OfferAnswerPair(1, LinkOf(1, 2), 2, LinkOf(2, 1))

\* The hook state without the observation fields.
Core(h) ==
  [h EXCEPT !.pcs = [i \in DOMAIN h.pcs |-> [h.pcs[i] EXCEPT !.glare = FALSE]],
            !.slip = 0, !.nCleanup = 0, !.arrived = [u \in Users |-> << >>]]

\* handleSignal gets an offer of m.from for a live link that has an own
\* offer outstanding.
GlareOffer(p, m) ==
  /\ m.type = "offer"
  /\ m.to = p
  /\ hook[p].localStreamRef # 0
  /\ LinkOf(p, m.from) # 0
  /\ hook[p].pcs[LinkOf(p, m.from)].sig = "have-local-offer"

\* The turn of handleSignal: the greater id chains the rollback, the lesser
\* id changes nothing.
C2_Decision ==
  \A p \in Pair : \A m \in net :
    (HandleSig(p, m) /\ GlareOffer(p, m)) =>
      IF p > m.from
        THEN Core(hook'[p]) =
               Core(Chain(hook[p], LinkOf(p, m.from),
                          PcTask("rollback", m.from, LinkOf(p, m.from), m.sdp)))
        ELSE Core(hook'[p]) = Core(hook[p])

\* The rollback settles: the own offer is gone, the offer-sent flag is
\* cleared and the incoming offer is being applied.
C2_RolledBack ==
  \A p \in Pair : \A i \in DOMAIN hook[p].pcs :
    (RollbackDone(p, i) /\ CanRollback(hook[p].pcs[i])) =>
      LET t == hook[p].pcs[i].chain[1]
          n == Len(hook'[p].pcs[i].chain)
      IN /\ hook'[p].pcs[i].sig = "stable"
         /\ hook'[p].pcs[i].local = "none"
         /\ t.peer \notin hook'[p].offerCreatedFor
         /\ n > 0
         /\ hook'[p].pcs[i].chain[n] = PcTask("offerSRD", t.peer, i, t.sdp)

\* The rollbacks chained on connection i of hook state h.
Rollbacks(h, i) ==
  IF i \in DOMAIN h.pcs
    THEN Cardinality({n \in DOMAIN h.pcs[i].chain : h.pcs[i].chain[n].k = "rollback"})
    ELSE 0

\* A rollback is only ever started by the greater id handling a glare.
C2_OnlyGreater ==
  \A p \in Pair : \A i \in DOMAIN hook'[p].pcs :
    Rollbacks(hook'[p], i) > Rollbacks(hook[p], i) =>
      /\ p > hook'[p].pcs[i].peer
      /\ \E m \in net : HandleSig(p, m) /\ GlareOffer(p, m)

\* C2: a remote offer handled on a link in have-local-offer makes the
\* participant with the greater id, and only it, roll back its own offer,
\* clear its offer-sent flag and apply (and then answer) the incoming offer;
\* the participant with the lesser id drops the offer and leaves the link,
\* its outstanding offer and the offer-sent flag unchanged.
C2_GlareRule == [][C2_Decision /\ C2_RolledBack /\ C2_OnlyGreater]_vars

C2_Witness ==
  /\ last.op = "rolled-back"
  /\ last.who = 2
  /\ hook[2].pcs[LinkOf(2, 1)].glare
  /\ hook[1].pcs[LinkOf(1, 2)].glare
  /\ hook[1].pcs[LinkOf(1, 2)].sig = "have-local-offer"

\* ---------------------------------------------------------------------------
\* One link per peer (C3)
\* ---------------------------------------------------------------------------

\* The connections of p to q that are not closed.
OpenLinks(p, q) ==
  { i \in DOMAIN hook[p].pcs :
      hook[p].pcs[i].peer = q /\ hook[p].pcs[i].conn # "closed" }

\* This step is a handleSignal turn of p that calls makePeer(q): a
\* call-accept or participant-joined of q handled with a local stream.
CallsMakePeer(p, q) ==
  /\ hook[p].localStreamRef # 0
  /\ \/ \E ty \in {"call-accept", "participant-joined"} : StraySignal(p, q, ty)
     \/ \E m \in net : /\ HandleSig(p, m)
                        /\ m.to = p
                        /\ m.from = q
                        /\ m.type \in {"call-accept", "participant-joined"}

\* makePeer(q) called while p holds a link to q that neither failed nor was
\* closed returns that link and leaves it open.
C3_SameLinkStep ==
  \A p \in Pair : \A q \in Pair :
    (/\ CallsMakePeer(p, q)
     /\ LinkOf(p, q) # 0
     /\ hook[p].pcs[LinkOf(p, q)].conn \notin {"closed", "failed"})
    => /\ hook'[p].peerConnections[q] = LinkOf(p, q)
       /\ hook'[p].pcs[LinkOf(p, q)].conn = hook[p].pcs[LinkOf(p, q)].conn

\* C3: makePeer called twice for a peer with no failure or close of the link
\* in between returns the same link both times, in every health state of the
\* link ('new' included), and a participant never holds two un-closed
\* connections to the same peer.
C3_OneLinkPerPeer ==
  /\ [][C3_SameLinkStep]_vars
  /\ [](\A p \in Pair : \A q \in Pair : Cardinality(OpenLinks(p, q)) <= 1)

\* ---------------------------------------------------------------------------
\* Candidate ordering (C4)
\* ---------------------------------------------------------------------------

\* Participant 1 calls participant 2 once, who accepts; both connections
\* gather candidates; the relay is reliable, media and channel setup succeed.
NextIce ==
  \/ nextRoom = 0 /\ InitiateCall(1, <<2>>)
  \/ \E p \in Pair : \E t \in hook[p].tasks : MediaDone(p, t, TRUE)
  \/ \E p \in Pair : \E t \in hook[p].tasks : ChannelDone(p, t, TRUE)
  \/ \E p \in Pair : \E t \in hook[p].tasks : InviteStep(p, t)
  \/ \E p \in Pair : \E m \in net : IncomingInvite(p, m)
  \/ \E p \in Pair : AcceptCall(p)
  \/ \E p \in Pair : \E t \in hook[p].tasks : AcceptSend(p, t, TRUE)
  \/ \E p \in Pair : \E m \in net : HandleSig(p, m)
  \/ \E p \in Pair : Negotiate(p)
  \/ \E p \in Pair : \E i \in DOMAIN hook[p].pcs : FlushStep(p, i)
  \/ \E p \in Pair : \E i \in DOMAIN hook[p].pcs : IceCandidate(p, i)
  \/ \E p \in Pair : SyncRefs(p)

SpecIce == Init /\ [][NextIce]_vars

\* The candidates of q that p received before the remote description of q
\* was set, in arrival order.
EarlyCands(p, q) ==
  LET e == SelectSeq(hook[p].arrived[q], LAMBDA x : x.early)
  IN [n \in DOMAIN e |-> e[n].c]

IsPrefix(a, b) == Len(a) <= Len(b) /\ \A n \in DOMAIN a : a[n] = b[n]

\* C4: the candidates received from a peer before its remote description is
\* set are applied to the link in arrival order, after the remote
\* description is set and before any candidate of that peer that arrives
\* later, and no candidate is applied twice.
C4_CandidateOrder ==
  \A p \in Pair : \A q \in Pair :
    LinkOf(p, q) # 0 =>
      LET c == hook[p].pcs[LinkOf(p, q)]
          a == c.applied
          early == EarlyCands(p, q)
          isEarly(x) == \E n \in DOMAIN early : early[n] = x
      IN /\ \A m, n \in DOMAIN a : a[m] = a[n] => m = n
         /\ a # << >> => HasRemote(c)
         /\ IsPrefix(SelectSeq(a, isEarly), early)
         /\ \A n \in DOMAIN a :
              ~isEarly(a[n]) =>
                \A k \in DOMAIN early : \E m \in 1 .. (n - 1) : a[m] = early[k]

\* ---------------------------------------------------------------------------
\* Teardown (C5)
\* ---------------------------------------------------------------------------

\* Participant 1 calls participant 2 once; 2 may accept; either side may call
\* endCall at any moment; media and channel setup succeed.
NextEnd ==
  \/ nextRoom = 0 /\ InitiateCall(1, <<2>>)
  \/ \E p \in Pair : \E t \in hook[p].tasks : MediaDone(p, t, TRUE)
  \/ \E p \in Pair : \E t \in hook[p].tasks : ChannelDone(p, t, TRUE)
  \/ \E p \in Pair : \E t \in hook[p].tasks : InviteStep(p, t)
  \/ \E p \in Pair : \E m \in net : IncomingInvite(p, m)
  \/ \E p \in Pair : AcceptCall(p)
  \/ \E p \in Pair : \E t \in hook[p].tasks : \E sent \in BOOLEAN : AcceptSend(p, t, sent)
  \/ \E p \in Pair : \E m \in net : HandleSig(p, m)
  \/ \E p \in Pair : Negotiate(p)
  \/ \E p \in Pair : EndCall(p)
  \/ \E m \in net : DropStale(m)
  \/ \E p \in Pair : SyncRefs(p)

SpecEnd == Init /\ [][NextEnd]_vars

\* The session fields of a hook state: state, links, stream, topic, room id.
Session(h) ==
  [callState |-> h.callState, peerConnections |-> h.peerConnections,
   pcs |-> [i \in DOMAIN h.pcs |-> h.pcs[i].conn],
   localStreamRef |-> h.localStreamRef, streams |-> h.streams,
   callChannelRef |-> h.callChannelRef, subs |-> h.subs,
   roomIdRef |-> h.roomIdRef]

\* C5: endCall called a second time, or when the session is already Idle,
\* leaves every session field unchanged (state Idle, no links, no stream, no
\* topic, no room id) and sends no signaling message.
C5_IdempotentEndCall ==
  [][\A p \in Pair :
       (EndCall(p) /\ hook[p].callState = "idle") =>
         /\ Session(hook'[p]) = Session(hook[p])
         /\ net' = net]_vars

\* ---------------------------------------------------------------------------
\* Busy (C6)
\* ---------------------------------------------------------------------------

\* Participants 1 and 2 call each other, each in a room of its own.
NextBusy ==
  \/ \E p \in Pair : InitiateCall(p, <<3 - p>>)
  \/ \E p \in Pair : \E t \in hook[p].tasks : MediaDone(p, t, TRUE)
  \/ \E p \in Pair : \E t \in hook[p].tasks : ChannelDone(p, t, TRUE)
  \/ \E p \in Pair : \E t \in hook[p].tasks : InviteStep(p, t)
  \/ \E p \in Pair : \E m \in net : IncomingInvite(p, m)
  \/ \E p \in Pair : SyncRefs(p)

SpecBusy == Init /\ [][NextBusy]_vars

\* C6: a participant whose session is not Idle and who receives a call-invite
\* for a different room sends call-busy to the inviter, and its session
\* (state, room id, links, stream, pending incoming call) is unchanged.
C6_BusyReply ==
  [][\A p \in Pair : \A m \in net :
       (/\ IncomingInvite(p, m)
        /\ m.to = p
        /\ hook[p].callState # "idle"
        /\ m.topic # hook[p].roomIdRef)
       => /\ \E b \in net' \ net : b.type = "call-busy" /\ b.from = p /\ b.to = m.from
          /\ Session(hook'[p]) = Session(hook[p])
          /\ hook'[p].incomingCall = hook[p].incomingCall]_vars

\* ---------------------------------------------------------------------------
\* Reject and timeout (C8, C9)
\* ---------------------------------------------------------------------------

\* Participant 1 calls participant 2 once, who never answers; media or
\* channel setup may fail, invitations may be lost; the ringing timeout may
\* expire.
NextTimeout ==
  \/ nextRoom = 0 /\ InitiateCall(1, <<2>>)
  \/ \E p \in Pair : \E t \in hook[p].tasks : \E ok \in BOOLEAN : MediaDone(p, t, ok)
  \/ \E p \in Pair : \E t \in hook[p].tasks : \E ok \in BOOLEAN : ChannelDone(p, t, ok)
  \/ \E p \in Pair : \E t \in hook[p].tasks : InviteStep(p, t)
  \/ \E p \in Pair : \E m \in net : IncomingInvite(p, m)
  \/ \E p \in Pair : \E t \in hook[p].tasks : ExpireDedup(p, t)
  \/ \E p \in Pair : \E r \in Rooms : TimerFire(p, r)
  \/ \E m \in net : Lose(m)
  \/ \E p \in Pair : SyncRefs(p)

SpecTimeout == Init /\ [][NextTimeout]_vars

\* As before, and participant 2 may reject the call.
NextReject ==
  \/ NextTimeout
  \/ \E p \in Pair : RejectCall(p)
  \/ \E p \in Pair : \E t \in hook[p].tasks : RejectSend(p, t)
  \/ \E p \in Pair : \E m \in net : HandleSig(p, m)
  \/ \E m \in net : DropStale(m)

SpecReject == Init /\ [][NextReject]_vars

\* The session of hook state h holds nothing.
Released(h) ==
  /\ h.callState = "idle"
  /\ NoLinks(h)
  /\ \A i \in DOMAIN h.pcs : h.pcs[i].conn = "closed"
  /\ h.localStreamRef = 0
  /\ \A i \in DOMAIN h.streams : h.streams[i] = "stopped"
  /\ h.callChannelRef = 0
  /\ h.roomIdRef = 0

\* C8: when 1 called 2 and 2 rejected, the session of 1 is Idle once 1 has
\* handled the call-reject, and no connection is ever created on either side.
C8_Reject ==
  /\ [][\A m \in net :
          (HandleSig(1, m) /\ m.type = "call-reject" /\ m.to = 1 /\ m.from = 2)
          => hook'[1].callState = "idle"]_vars
  /\ [](\A p \in Pair : hook[p].pcs = << >>)

C8_Witness ==
  /\ last = Ev("call-reject", 1, 2, 0)
  /\ hook[1].callState = "idle"
  /\ hook[1].streams = <<"stopped">>
  /\ hook[2].incomingCall = NoCall

\* C9: when no target answers and the ringing timeout expires with the
\* caller still Ringing, the session becomes Idle with links closed, stream
\* stopped, topic closed and fields reset, and the teardown has run exactly
\* once for that call, then and ever after.
C9_Timeout ==
  /\ [][\A r \in Rooms :
          (TimerFire(1, r) /\ hook[1].callState = "ringing")
          => /\ Released(hook'[1])
             /\ hook'[1].nCleanup = 1]_vars
  /\ [](hook[1].nCleanup <= 1)

C9_Witness ==
  /\ last = Ev("timeout", 1, 0, 1)
  /\ Released(hook[1])
  /\ hook[1].streams = <<"stopped">>
  /\ hook[1].nCleanup = 1

\* ---------------------------------------------------------------------------
\* Basic 1:1 call (C7)
\* ---------------------------------------------------------------------------

\* Participant 1 calls participant 2, who accepts; media and channel setup
\* succeed, every message is delivered, no connection fails, and the ringing
\* timeout expires only after the caller has seen the call answered.  Every
\* callback that is ready runs eventually.
NextBasic ==
  \/ nextRoom = 0 /\ InitiateCall(1, <<2>>)
  \/ \E p \in Pair : \E t \in hook[p].tasks : MediaDone(p, t, TRUE)
  \/ \E p \in Pair : \E t \in hook[p].tasks : ChannelDone(p, t, TRUE)
  \/ \E p \in Pair : \E t \in hook[p].tasks : InviteStep(p, t)
  \/ \E p \in Pair : \E m \in net : IncomingInvite(p, m)
  \/ \E p \in Pair : AcceptCall(p)
  \/ \E p \in Pair : \E t \in hook[p].tasks : AcceptSend(p, t, TRUE)
  \/ \E p \in Pair : \E m \in net : HandleSig(p, m)
  \/ \E p \in Pair : Negotiate(p)
  \/ \E p \in Pair : \E i \in DOMAIN hook[p].pcs :
       \E to \in {"connecting", "connected"} : ConnectionState(p, i, to)
  \/ \E p \in Pair : \E r \in Rooms : hook[p].callStateRef # "ringing" /\ TimerFire(p, r)
  \/ \E p \in Pair : SyncRefs(p)

SpecBasic == Init /\ [][NextBasic]_vars /\ WF_vars(NextBasic)

BothConnected == hook[1].callState = "connected" /\ hook[2].callState = "connected"

\* The session state of p changes only along the pairs of moves.
Moves(p, moves) ==
  hook'[p].callState # hook[p].callState =>
    <<hook[p].callState, hook'[p].callState>> \in moves

\* C7: when 1 calls an Idle 2 and 2 accepts, with media, channel and
\* delivery working, 1 goes Idle -> Ringing -> Connecting and 2 goes
\* Idle -> Connecting, 1 makes the offer, 2 answers it, 1 applies the answer,
\* and eventually both sessions are Connected.
C7_BasicCall ==
  /\ [][Moves(1, {<<"idle", "ringing">>, <<"ringing", "connecting">>,
                  <<"connecting", "connected">>})]_vars
  /\ [][Moves(2, {<<"idle", "connecting">>, <<"connecting", "connected">>})]_vars
  /\ [](BothConnected => OfferAnswerPair(1, LinkOf(1, 2), 2, LinkOf(2, 1)))
  /\ <>BothConnected

C7_Witness ==
  /\ BothConnected
  /\ LinkOf(1, 2) # 0
  /\ LinkOf(2, 1) # 0
  /\ OfferAnswerPair(1, LinkOf(1, 2), 2, LinkOf(2, 1))
  /\ hook[1].pcs[LinkOf(1, 2)].conn = "connected"
  /\ hook[2].pcs[LinkOf(2, 1)].conn = "connected"

\* ---------------------------------------------------------------------------
\* Join rule (C10)
\* ---------------------------------------------------------------------------

\* The participants that were invited.
Joiners == {2, 3}

\* Participant 1 calls participants 2 and 3, who both accept, in any order,
\* once the 5 x 600 ms of invitations are over; media and channel setup
\* succeed and the relay is reliable, though it may reorder.  The runs end
\* while the caller's own offers are still being created: the negotiation
\* between the invited participants is followed to its end.
Next3 ==
  \/ nextRoom = 0 /\ InitiateCall(1, <<2, 3>>)
  \/ \E p \in Users : \E t \in hook[p].tasks : MediaDone(p, t, TRUE)
  \/ \E p \in Users : \E t \in hook[p].tasks : ChannelDone(p, t, TRUE)
  \/ \E p \in Users : \E t \in hook[p].tasks : InviteStep(p, t)
  \/ \E p \in Users : \E m \in net : IncomingInvite(p, m)
  \/ \E p \in Users : InvitesOver /\ AcceptCall(p)
  \/ \E p \in Users : \E t \in hook[p].tasks : AcceptSend(p, t, TRUE)
  \/ \E p \in Users : \E t \in hook[p].tasks : JoinedSend(p, t, TRUE)
  \/ \E p \in Users : \E m \in net : HandleSig(p, m)
  \/ \E p \in Joiners : Negotiate(p)
  \/ \E p \in Users : SyncRefs(p)

Spec3 == Init /\ [][Next3]_vars

\* A createOffer for peer q is chained on some connection of hook state h.
OfferStarted(h, q) ==
  \E i \in DOMAIN h.pcs : \E n \in DOMAIN h.pcs[i].chain :
    h.pcs[i].chain[n].k = "createOffer" /\ h.pcs[i].chain[n].peer = q

\* Offers of the join path: between the participants that were invited.
JoinOffers == { m \in net : m.type = "offer" /\ m.from # 1 /\ m.to # 1 }

\* C10: an existing participant X that handles participant-joined of a new
\* participant N starts an offer to N exactly if X < N, whichever of the two
\* has the lower id; so of a pair only the lower id ever makes, and sends,
\* an offer on the join path.
C10_JoinRule ==
  /\ [][\A p \in Users : \A m \in net :
          (/\ HandleSig(p, m)
           /\ m.type = "participant-joined"
           /\ m.to = p
           /\ hook[p].localStreamRef # 0)
          => /\ OfferStarted(hook'[p], m.from) <=> p < m.from
             /\ m.from \in hook'[p].offerCreatedFor <=> p < m.from]_vars
  /\ [](~(3 \in hook[2].offerCreatedFor /\ 2 \in hook[3].offerCreatedFor))
  /\ [](\A m \in JoinOffers : m.from < m.to)

\* Both id orderings happened in one call: 3 handled the participant-joined
\* of 2 without offering, 2 handled the one of 3 and its offer is sent.
C10_Witness ==
  /\ LinkOf(3, 2) # 0
  /\ 2 \notin hook[3].offerCreatedFor
  /\ 3 \in hook[2].offerCreatedFor
  /\ \E m \in JoinOffers : m.from = 2 /\ m.to = 3
  /\ \A m \in net : m.type # "participant-joined"

\* ---------------------------------------------------------------------------
\* Mesh completeness (C11)
\* ---------------------------------------------------------------------------

\* acceptCall of p has run to its end: the call channel is subscribed and the
\* call-accept and every participant-joined are sent.
Joined(p) ==
  /\ hook[p].callChannelRef # 0
  /\ \A t \in hook[p].tasks : t.k \notin {"acc_media", "acc_chan", "acc_wait", "acc_pj"}

\* C11: in a 3-party call where 1 invites 2 and 3 and both accept, every
\* message sent to a subscribed participant being delivered, the pair {2, 3}
\* gets a negotiated link: once both have joined and every
\* participant-joined is handled, one of the two has started an offer to the
\* other.
C11_MeshComplete ==
  (/\ Joined(2)
   /\ Joined(3)
   /\ \A m \in net : m.type # "participant-joined")
  => (3 \in hook[2].offerCreatedFor \/ 2 \in hook[3].offerCreatedFor)

\* ---------------------------------------------------------------------------
\* Session state order (C12)
\* ---------------------------------------------------------------------------

\* Participant 1 calls participants 2 and 3; 2 accepts once the invitations
\* are over, 3 accepts once 1 and 2 are connected; media and channel setup
\* succeed, the relay is reliable and no connection fails.  The runs end
\* while the late joiner is still applying the offers it received.
NextJoin ==
  \/ nextRoom = 0 /\ InitiateCall(1, <<2, 3>>)
  \/ \E p \in Users : \E t \in hook[p].tasks : MediaDone(p, t, TRUE)
  \/ \E p \in Users : \E t \in hook[p].tasks : ChannelDone(p, t, TRUE)
  \/ \E p \in Users : \E t \in hook[p].tasks : InviteStep(p, t)
  \/ \E p \in Users : \E m \in net : IncomingInvite(p, m)
  \/ InvitesOver /\ AcceptCall(2)
  \/ BothConnected /\ AcceptCall(3)
  \/ \E p \in Users : \E t \in hook[p].tasks : AcceptSend(p, t, TRUE)
  \/ \E p \in Users : \E t \in hook[p].tasks : JoinedSend(p, t, TRUE)
  \/ \E p \in Users : \E m \in net : HandleSig(p, m)
  \/ \E p \in Pair : Negotiate(p)
  \/ \E p \in Users : \E i \in DOMAIN hook[p].pcs :
       \E to \in {"connecting", "connected"} : ConnectionState(p, i, to)
  \/ \E p \in Users : SyncRefs(p)

SpecJoin == Init /\ [][NextJoin]_vars

\* Position of a session state in the order of a call.
Rank(st) ==
  CASE st = "ringing" -> 1
    [] st = "connecting" -> 2
    [] st = "connected" -> 3
    [] OTHER -> 0

\* C12: within a call the session state only moves forward, Ringing ->
\* Connecting -> Connected, or back to Idle by teardown; once Connected no
\* event moves it back to Connecting or Ringing.
C12_StateOrder ==
  [][\A p \in Users :
       \/ hook[p].callState = "idle"
       \/ hook'[p].callState = "idle"
       \/ Rank(hook'[p].callState) >= Rank(hook[p].callState)]_vars

\* ---------------------------------------------------------------------------
\* Local media (C13)
\* ---------------------------------------------------------------------------

\* Participants 1 and 2 call each other, each when its session is rendered
\* Idle, and each may accept the invitation of the other that it was shown;
\* invitations arrive with the state ref synchronised.
NextMix ==
  \/ \E p \in Pair : hook[p].callState = "idle" /\ InitiateCall(p, <<3 - p>>)
  \/ \E p \in Pair : \E t \in hook[p].tasks : MediaDone(p, t, TRUE)
  \/ \E p \in Pair : \E t \in hook[p].tasks : ChannelDone(p, t, TRUE)
  \/ \E p \in Pair : \E t \in hook[p].tasks : InviteStep(p, t)
  \/ \E p \in Pair : \E m \in net :
       hook[p].callStateRef = hook[p].callState /\ IncomingInvite(p, m)
  \/ \E p \in Pair : AcceptCall(p)
  \/ \E p \in Pair : SyncRefs(p)

SpecMix == Init /\ [][NextMix]_vars

\* The streams of p whose tracks are live.
LiveStreams(p) == { i \in DOMAIN hook[p].streams : hook[p].streams[i] = "live" }

\* C13: local media is acquired at most once per call session, a second
\* acquisition while a stream is active producing no second stream, and
\* every acquired stream is stopped by teardown: a participant never has two
\* live streams, and a live stream is the one the session holds, which
\* teardown stops.
C13_MediaOnce ==
  \A p \in Pair :
    /\ Cardinality(LiveStreams(p)) <= 1
    /\ \A i \in LiveStreams(p) : hook[p].localStreamRef = i

\* ---------------------------------------------------------------------------
\* Candidate queue lifetime (C14)
\* ---------------------------------------------------------------------------

\* A 3-party call: 2 joins 1, then 3 accepts; once 1 has a link to 3, the
\* connection of 2 to 1 gathers further candidates and the link of 1 to 2
\* may fail.  The continuation of 3 after its call-accept does not run.
NextDrop ==
  \/ nextRoom = 0 /\ InitiateCall(1, <<2, 3>>)
  \/ \E p \in Users : \E t \in hook[p].tasks : MediaDone(p, t, TRUE)
  \/ \E p \in Users : \E t \in hook[p].tasks : ChannelDone(p, t, TRUE)
  \/ \E p \in Users : \E t \in hook[p].tasks : InviteStep(p, t)
  \/ \E p \in Users : \E m \in net : IncomingInvite(p, m)
  \/ InvitesOver /\ AcceptCall(2)
  \/ BothConnected /\ AcceptCall(3)
  \/ \E p \in Users : \E t \in hook[p].tasks : AcceptSend(p, t, TRUE)
  \/ \E p \in Pair : \E m \in net : HandleSig(p, m)
  \/ \E p \in Pair : Negotiate(p)
  \/ \E p \in Pair : \E i \in DOMAIN hook[p].pcs :
       \E to \in {"connecting", "connected"} : ConnectionState(p, i, to)
  \/ \E i \in DOMAIN hook[2].pcs :
       LinkOf(1, 3) # 0 /\ hook[2].pcs[i].peer = 1 /\ IceCandidate(2, i)
  \/ \E i \in DOMAIN hook[1].pcs :
       LinkOf(1, 3) # 0 /\ hook[1].pcs[i].peer = 2 /\ ConnectionState(1, i, "failed")
  \/ \E p \in Users : SyncRefs(p)

SpecDrop == Init /\ [][NextDrop]_vars

\* C14: the queue of a peer is cleared once, when the remote description of
\* that peer is set, and never used afterwards: once a candidate of the peer
\* was handled with the remote description set, none is queued any more, so
\* that nothing is left in the queue for a later link to that peer.
C14_QueueLifetime ==
  \A p \in Users : \A q \in Users :
    LET r == hook[p].arrived[q] IN
    \A m, n \in DOMAIN r : (m < n /\ ~r[m].early) => ~r[n].early

\* ---------------------------------------------------------------------------
\* Media failure (C15)
\* ---------------------------------------------------------------------------

\* C15: when getMedia has failed in initiateCall or acceptCall and the
\* operation has finished, the session is idle, has no link, no channel and
\* no room id, and the error field is set.
C15_MediaError ==
  last.op = "media-failed" =>
    /\ hook[last.who].callState = "idle"
    /\ NoLinks(hook[last.who])
    /\ hook[last.who].callChannelRef = 0
    /\ hook[last.who].roomIdRef = 0
    /\ hook[last.who].error

\* ---------------------------------------------------------------------------
\* Channel setup failure (C16)
\* ---------------------------------------------------------------------------

\* As NextTimeout, and a channel whose setup timed out may still come up.
NextAbort ==
  \/ NextTimeout
  \/ \E p \in Pair : \E r \in Rooms : LateSubscribed(p, r)

SpecAbort == Init /\ [][NextAbort]_vars

\* The setup of the channel of room r by p has failed.
Aborted(p, r) ==
  /\ r \in hook[p].pending
  /\ \A t \in hook[p].tasks : ~(t.k \in {"init_chan", "acc_chan"} /\ t.room = r)

\* C16: when the session channel did not open in time, the stream acquired
\* for the call is stopped, the session is idle, no invitation and no
\* call-accept of that room is sent, and the channel of that room is not
\* open and does not become the session channel later.
C16_ChannelAbort ==
  [][\A p \in Pair :
       /\ (last'.op = "channel-failed" /\ last'.who = p) =>
            /\ hook'[p].callState = "idle"
            /\ hook'[p].localStreamRef = 0
            /\ \A i \in DOMAIN hook'[p].streams : hook'[p].streams[i] = "stopped"
            /\ \A t \in hook'[p].tasks :
                 t.k \in {"invite", "acc_wait", "acc_pj"} => t.room # last'.arg
            /\ \A m \in net' :
                 (m.from = p /\ m.type \in {"call-invite", "call-accept"}) => m.topic # last'.arg
       /\ \A r \in Rooms :
            Aborted(p, r) => (r \notin hook'[p].subs /\ hook'[p].callChannelRef # r)]_vars

\* ---------------------------------------------------------------------------
\* Failure of a link (C17)
\* ---------------------------------------------------------------------------

\* The 3-party call of NextJoin in which the links of 1 and 2 may fail.
NextFail ==
  \/ NextJoin
  \/ \E p \in Pair : \E i \in DOMAIN hook[p].pcs : ConnectionState(p, i, "failed")

SpecFail == Init /\ [][NextFail]_vars

\* The session of hook state h is idle and holds no media and no channel.
TornDown(h) ==
  /\ h.callState = "idle"
  /\ NoLinks(h)
  /\ h.localStreamRef = 0
  /\ \A i \in DOMAIN h.streams : h.streams[i] = "stopped"
  /\ h.callChannelRef = 0
  /\ h.roomIdRef = 0

\* C17: when a link fails it is removed; if another link remains, the
\* session state and the other links are unchanged; if it was the last link
\* of a session that was not idle, the session is torn down and idle.
C17_LinkFailure ==
  [][\A p \in Users :
       (last'.op = "pc-failed" /\ last'.who = p) =>
         /\ hook'[p].peerConnections[last'.peer] = 0
         /\ (NoLinks(hook'[p]) /\ hook[p].callState # "idle") => TornDown(hook'[p])
         /\ ~NoLinks(hook'[p]) =>
              /\ hook'[p].callState = hook[p].callState
              /\ \A u \in Users \ {last'.peer} :
                   hook'[p].peerConnections[u] = hook[p].peerConnections[u]
              /\ \A i \in DOMAIN hook[p].pcs :
                   hook[p].pcs[i].peer # last'.peer => hook'[p].pcs[i] = hook[p].pcs[i]]_vars

\* The last link of 1 has failed and the session of 1 was torn down.
C17_Witness ==
  /\ last.op = "pc-failed"
  /\ last.who = 1
  /\ hook[1].nCleanup = 1
  /\ TornDown(hook[1])

\* ---------------------------------------------------------------------------
\* Remote end signals (C18)
\* ---------------------------------------------------------------------------

\* A 3-party call: 2 joins 1, then 3 accepts or rejects; 2 may end the call
\* once it is connected.  The continuation of 3 after its call-accept does
\* not run.
NextLeave ==
  \/ nextRoom = 0 /\ InitiateCall(1, <<2, 3>>)
  \/ \E p \in Users : \E t \in hook[p].tasks : MediaDone(p, t, TRUE)
  \/ \E p \in Users : \E t \in hook[p].tasks : ChannelDone(p, t, TRUE)
  \/ \E p \in Users : \E t \in hook[p].tasks : InviteStep(p, t)
  \/ \E p \in Users : \E m \in net : IncomingInvite(p, m)
  \/ InvitesOver /\ AcceptCall(2)
  \/ BothConnected /\ AcceptCall(3)
  \/ \E p \in Users : \E t \in hook[p].tasks : AcceptSend(p, t, TRUE)
  \/ \E p \in Pair : \E m \in net : HandleSig(p, m)
  \/ \E p \in Pair : Negotiate(p)
  \/ \E p \in Pair : \E i \in DOMAIN hook[p].pcs :
       \E to \in {"connecting", "connected"} : ConnectionState(p, i, to)
  \/ hook[2].callState = "connected" /\ EndCall(2)
  \/ InvitesOver /\ RejectCall(3)
  \/ \E t \in hook[3].tasks : RejectSend(3, t)
  \/ \E p \in Users : SyncRefs(p)

SpecLeave == Init /\ [][NextLeave]_vars

\* handleSignal has just handled an end signal addressed to p.
EndSignal(p) ==
  /\ last'.op \in {"call-end", "call-reject", "call-busy"}
  /\ last'.who = p
  /\ \E m \in net \ net' :
       m.rcpt = p /\ m.to = p /\ m.type = last'.op /\ m.from = last'.peer

\* C18: when call-end, call-reject or call-busy of peer P is handled, the
\* link to P, if any, is closed and removed; the session is torn down to idle
\* exactly when no link remains, and otherwise keeps its state and its other
\* links.
C18_RemoteEnd ==
  [][\A p \in Users :
       EndSignal(p) =>
         LET q == last'.peer
             e == hook[p].peerConnections[q]
         IN /\ hook'[p].peerConnections[q] = 0
            /\ e # 0 => hook'[p].pcs[e].conn = "closed"
            /\ NoLinks(hook'[p]) => TornDown(hook'[p])
            /\ ~NoLinks(hook'[p]) =>
                 /\ hook'[p].callState = hook[p].callState
                 /\ hook'[p].nCleanup = hook[p].nCleanup
                 /\ hook'[p].callChannelRef = hook[p].callChannelRef
                 /\ \A u \in Users \ {q} :
                      hook'[p].peerConnections[u] = hook[p].peerConnections[u]
                 /\ \A i \in DOMAIN hook[p].pcs : i # e => hook'[p].pcs[i] = hook[p].pcs[i]]_vars

\* 1 has handled the call-end of 2 and goes on with its link to 3.
C18_Witness ==
  /\ last.op = "call-end"
  /\ last.who = 1
  /\ last.peer = 2
  /\ hook[1].peerConnections[2] = 0
  /\ hook[1].peerConnections[3] # 0
  /\ hook[1].callState # "idle"

\* ---------------------------------------------------------------------------
\* endCall (C19)
\* ---------------------------------------------------------------------------

\* C19: endCall from a state other than idle sends call-end to every peer
\* it has a link to (the relay hands a copy to each of them subscribed to the
\* room), closes every link, stops the stream, closes the channel and resets
\* the session: idle, no room id, no queued candidates, no offer flags.
C19_EndCall ==
  [][\A p \in Pair :
       (EndCall(p) /\ hook[p].callState # "idle") =>
         /\ \A u \in Users :
              hook[p].peerConnections[u] # 0 =>
                /\ hook[p].callChannelRef # 0
                /\ hook[p].roomIdRef # 0
                /\ hook[p].callChannelRef \in hook[u].subs =>
                     \E m \in net' \ net :
                       /\ m.type = "call-end" /\ m.from = p /\ m.to = u /\ m.rcpt = u
                       /\ m.topic = hook[p].roomIdRef
                /\ hook'[p].pcs[hook[p].peerConnections[u]].conn = "closed"
         /\ TornDown(hook'[p])
         /\ hook[p].callChannelRef \notin hook'[p].subs
         /\ hook'[p].offerCreatedFor = {}
         /\ \A u \in Users : hook'[p].pendingCandidates[u] = << >>]_vars

\* ---------------------------------------------------------------------------
\* Continuations after a teardown (C20)
\* ---------------------------------------------------------------------------

\* The turns in which a continuation of sendOffer or of handleSignal resumes.
ResumeOps ==
  {"offer-created", "offer-set", "offer-error", "offer-sent",
   "rolled-back", "rollback-error", "offer-applied", "offer-apply-error",
   "flush-next", "flush-done", "answer-created", "answer-error",
   "answer-sent", "answer-set-error", "answer-applied", "answer-apply-error"}

\* This step resumes, at p, a continuation that works on a connection which
\* was torn down.
Resumed(p) ==
  /\ last'.who = p
  /\ last'.op \in ResumeOps
  /\ last'.arg \in DOMAIN hook[p].pcs
  /\ hook[p].pcs[last'.arg].sig = "closed"

Handled(p, ty) ==
  /\ last'.op = ty
  /\ last'.who = p
  /\ \E m \in net \ net' :
       m.rcpt = p /\ m.to = p /\ m.type = ty /\ m.from = last'.peer

\* C21: an answer of peer P is applied only to a link to P in state
\* have-local-offer; an answer that finds no link, or a link in another
\* state, is dropped: links, signaling states and candidate queues stay as
\* they are.
C21_AnswerGuard ==
  [][\A p \in Users :
       /\ Handled(p, "answer") =>
            LET e == hook[p].peerConnections[last'.peer] IN
            (e = 0 \/ hook[p].pcs[e].sig # "have-local-offer") =>
              /\ hook'[p].peerConnections = hook[p].peerConnections
              /\ hook'[p].pcs = hook[p].pcs
              /\ hook'[p].pendingCandidates = hook[p].pendingCandidates
       /\ \A i \in DOMAIN hook[p].pcs :
            (hook'[p].pcs[i].remote = "answer" /\ hook[p].pcs[i].remote # "answer") =>
              /\ hook[p].pcs[i].sig = "have-local-offer"
              /\ hook[p].peerConnections[hook[p].pcs[i].peer] = i]_vars

\* An answer has reached a participant whose link to the sender is stable
\* and was dropped.
C21_Witness ==
  /\ last.op = "answer"
  /\ last.who \in Pair
  /\ LET h == hook[last.who]
         e == h.peerConnections[last.peer]
     IN /\ e # 0
        /\ h.pcs[e].sig = "stable"
        /\ h.pcs[e].remote = "none"
        /\ h.pcs[e].chain = << >>

\* ---------------------------------------------------------------------------
\* Offer idempotence (C22)
\* ---------------------------------------------------------------------------

\* The connections of p for peer q that hold or are creating a local offer.
Offering(h, q) ==
  { i \in DOMAIN h.pcs :
      /\ h.pcs[i].peer = q
      /\ \/ h.pcs[i].local = "offer"
         \/ \E n \in DOMAIN h.pcs[i].chain : h.pcs[i].chain[n].k \in {"createOffer", "offerSLD"} }

\* C22: a call of sendOffer for a peer whose offer flag is set starts no
\* offer and sends nothing; in one session, without rollback or failure, no
\* peer gets a second local offer.
C22_OfferOnce ==
  [][\A p \in Users :
       /\ (/\ last'.who = p
           /\ last'.op \in {"call-accept", "participant-joined"}
           /\ last'.peer \in hook[p].offerCreatedFor) =>
            /\ Offering(hook'[p], last'.peer) \subseteq Offering(hook[p], last'.peer)
            /\ hook'[p].offerCreatedFor = hook[p].offerCreatedFor
            /\ \A m \in net' \ net : m.from # p
       /\ \A q \in Users : Cardinality(Offering(hook'[p], q)) <= 1]_vars

\* A second call-accept has replaced the link, and sendOffer, finding the
\* flag set, has started nothing on the new one.
C22_Witness ==
  /\ last.op = "call-accept"
  /\ last.who \in Pair
  /\ LET h == hook[last.who]
         e == h.peerConnections[last.peer]
     IN /\ last.peer \in h.offerCreatedFor
        /\ e # 0
        /\ h.pcs[e].local = "none"
        /\ h.pcs[e].chain = << >>

\* ---------------------------------------------------------------------------
\* Invitation deduplication (C23)
\* ---------------------------------------------------------------------------

\* The listener of p has just run for an invitation of room last'.arg.
InviteTurn(p) ==
  /\ last'.who = p
  /\ last'.op \in {"invite-dropped", "invite-busy", "invite-shown"}

\* C23: an invitation of a room that is in the dedup set changes neither the
\* pending incoming call nor the session and sends nothing; the pending
\* incoming call is only set by an invitation of a room not in the set.
C23_Dedup ==
  [][\A p \in Users :
       InviteTurn(p) =>
         /\ last'.arg \in hook[p].processedCalls =>
              /\ hook'[p].incomingCall = hook[p].incomingCall
              /\ Session(hook'[p]) = Session(hook[p])
              /\ hook'[p].processedCalls = hook[p].processedCalls
              /\ net' \subseteq net
         /\ hook'[p].incomingCall # hook[p].incomingCall =>
              /\ last'.arg \notin hook[p].processedCalls
              /\ hook'[p].incomingCall.roomId = last'.arg]_vars

\* A retransmitted invitation has been discarded after the call was rejected.
C23_Witness ==
  /\ last.op = "invite-dropped"
  /\ last.who = 2
  /\ last.arg \in hook[2].processedCalls
  /\ hook[2].incomingCall = NoCall

\* ---------------------------------------------------------------------------
\* Addressing filter (C24)
\* ---------------------------------------------------------------------------

\* C24: a signal or invitation handed to p whose 'to' is not p leaves the
\* session, the links, the queues and the pending incoming call of p as they
\* are, and nothing is sent.
C24_Addressing ==
  [][\A p \in Users :
       (last'.who = p /\ \E m \in net \ net' : m.rcpt = p /\ m.to # p) =>
         /\ [hook'[p] EXCEPT !.slip = 0] = [hook[p] EXCEPT !.slip = 0]
         /\ net' \subseteq net]_vars

\* The call-accept that 3 addressed to 1 was handed to 2, who is in the call.
C24_Witness ==
  /\ last.op = "call-accept"
  /\ last.who = 2
  /\ last.peer = 3
  /\ hook[2].callState = "connected"
  /\ hook[2].localStreamRef # 0

\* ---------------------------------------------------------------------------
\* Accept fan-out (C25)
\* ---------------------------------------------------------------------------

\* What joiner p of the call of 1 to 2 and 3 has to send.
FanOut(p) ==
  <<[type |-> "call-accept", to |-> 1], [type |-> "participant-joined", to |-> 5 - p]>>

\* C25: acceptCall takes the session from idle to connecting and, once media
\* and channel are ready, sends one call-accept to the inviter and then one
\* participant-joined to every other invited participant.
C25_FanOut ==
  [][\A p \in Joiners :
       /\ (last'.op = "acceptCall" /\ last'.who = p) =>
            /\ hook[p].callState = "idle"
            /\ hook'[p].callState = "connecting"
       /\ IsPrefix(hook'[p].fanout, FanOut(p))
       /\ (/\ hook'[p].callChannelRef # 0
           /\ \A t \in hook'[p].tasks :
                t.k \notin {"acc_media", "acc_chan", "acc_wait", "acc_pj"})
            => hook'[p].fanout = FanOut(p)]_vars

\* Both joiners have sent their call-accept and their participant-joined.
C25_Witness ==
  /\ hook[2].fanout = FanOut(2)
  /\ hook[3].fanout = FanOut(3)

\* ---------------------------------------------------------------------------
\* Ringing timeout and answered calls (C26)
\* ---------------------------------------------------------------------------

\* The 1:1 call of NextBasic in which the timeout may expire at any moment
\* after it was armed.
NextRing ==
  \/ NextBasic
  \/ \E r \in Rooms : TimerFire(1, r)

SpecRing == Init /\ [][NextRing]_vars

\* C26: the expiry of the timer of initiateCall does not tear down a session
\* that is connecting or connected.
C26_TimerCancelled ==
  [][\A p \in Pair :
       (/\ last'.who = p
        /\ last'.op \in {"timeout", "timer-ignored"}
        /\ hook[p].callState \in {"connecting", "connected"}) =>
         /\ hook'[p].callState = hook[p].callState
         /\ Session(hook'[p]) = Session(hook[p])
         /\ hook'[p].nCleanup = hook[p].nCleanup]_vars

\* ---------------------------------------------------------------------------
\* Invitation retransmission (C27)
\* ---------------------------------------------------------------------------

\* The group call of NextJoin, every enabled step eventually taken.
SpecInvite == Init /\ [][NextJoin]_vars /\ WF_vars(NextJoin)

\* The resend loops of caller p towards target q.
InviteLoops(h, q) == { t \in h.tasks : t.k = "invite" /\ t.peer = q }

\* C27: for one initiateCall each target is sent at most 5 call-invite
\* messages (attempts 1 .. 5, each once, in order), all with the room id and
\* the participant list of that initiateCall, and the resend loops end.
C27_Bounded ==
  /\ [][\A p \in Users : \A q \in Users :
         /\ Cardinality(InviteLoops(hook'[p], q)) <= 1
         /\ (last'.op = "invite" /\ last'.who = p /\ last'.peer = q /\ last' # last) =>
              /\ last'.arg \in 1 .. 5
              /\ \E t \in InviteLoops(hook[p], q) :
                   /\ t.i + 1 = last'.arg
                   /\ t.room = 1
                   /\ t.list = <<1, 2, 3>>
                   /\ \E m \in net' :
                        /\ m.type = "call-invite" /\ m.from = p /\ m.to = q
                        /\ m.topic = t.room /\ m.parts = t.list
                   /\ \A u \in InviteLoops(hook'[p], q) :
                        u.i = last'.arg /\ u.room = t.room /\ u.list = t.list
              /\ last'.arg = 5 => InviteLoops(hook'[p], q) = {}]_vars
  /\ <>[](\A p \in Users : \A q \in Users : InviteLoops(hook[p], q) = {})

\* The fifth invitation to 3 has been sent and no resend loop is left.
C27_Witness ==
  /\ last.op = "invite" /\ last.who = 1 /\ last.peer = 3 /\ last.arg = 5
  /\ \A q \in Users : InviteLoops(hook[1], q) = {}

\* ---------------------------------------------------------------------------
\* Screen sharing (lines 673-749)
\* ---------------------------------------------------------------------------

\* Mutant of the sender loop: no sender is given the new track.
ReplaceSenders_none(h, k) == h

\* peerConnections.current.forEach(pc => { ... sender.replaceTrack(track) })
\* (lines 689-692, 709-712, 723-726): the video sender of every connection in
\* the map carries track k afterwards.
ReplaceSenders(h, k) ==
  [h EXCEPT !.pcs = [i \in DOMAIN h.pcs |->
                       IF \E u \in Users : h.peerConnections[u] = i
                         THEN [h.pcs[i] EXCEPT !.vtrack = k] ELSE h.pcs[i]]]

\* oldTracks.forEach(t => { removeTrack(t); [t.stop();] }); addTrack(track)
\* (lines 694-696, 728-730, 738-740): the video track of the local stream
\* is taken out of it, stopped or not, and track k put in.
SwapVideo(h, k, stop) ==
  IF h.video = 0
    THEN [h EXCEPT !.tracks = Append(@, [kind |-> "initial", live |-> ~stop]),
                   !.video = k]
    ELSE [h EXCEPT !.tracks[h.video].live = IF stop THEN FALSE ELSE @,
                   !.video = k]

ShareTasks(h) == { t \in h.tasks : t.k \in {"share_on", "share_off", "share_back"} }

\* toggleScreenShare is called (line 673): it asks for the display or for
\* the camera, by the isScreenSharing of the render it was made in, and
\* waits (lines 678, 706).
ToggleScreenShare(p) ==
  /\ ShareTasks(hook[p]) = {}
  /\ Len(hook[p].tracks) < MaxTracks
  /\ LET h == hook[p]
         k == IF h.isScreenSharing THEN "share_off" ELSE "share_on"
     IN Turn(p, [h EXCEPT !.tasks = @ \cup {CallTask(k, 0, 0, << >>, 0)}],
             {}, {}, Ev("toggleScreenShare", p, 0, 0))
  /\ UNCHANGED <<nextRoom, nStray>>

\* getDisplayMedia settles (lines 706-747).
ShareOn(p, t, ok) ==
  /\ t \in hook[p].tasks
  /\ t.k = "share_on"
  /\ LET h == Without(hook[p], t)
         k == Len(h.tracks) + 1
         h1 == [h EXCEPT !.tracks = Append(@, [kind |-> "display", live |-> TRUE])]
         h2 == ReplaceSenders(h1, k)
         h3 == IF h2.localStreamRef # 0 THEN SwapVideo(h2, k, FALSE) ELSE h2
     IN IF ok
          THEN Turn(p, [h3 EXCEPT !.isScreenSharing = TRUE], {}, {}, Ev("share-on", p, 0, k))
          ELSE Turn(p, h, {}, {}, Ev("share-failed", p, 0, 0))
  /\ UNCHANGED <<nextRoom, nStray>>

\* getUserMedia of the switch back settles (lines 678-702).
ShareOff(p, t, ok) ==
  /\ t \in hook[p].tasks
  /\ t.k = "share_off"
  /\ LET h == Without(hook[p], t)
         k == Len(h.tracks) + 1
         h1 == [h EXCEPT !.tracks = Append(@, [kind |-> "camera", live |-> TRUE])]
         h2 == IF h1.localStreamRef # 0
                 THEN SwapVideo(ReplaceSenders(h1, k), k, TRUE)
                 ELSE h1
     IN IF ok
          THEN Turn(p, [h2 EXCEPT !.isScreenSharing = FALSE], {}, {}, Ev("share-off", p, 0, k))
          ELSE Turn(p, h, {}, {}, Ev("share-failed", p, 0, 0))
  /\ UNCHANGED <<nextRoom, nStray>>

\* screenTrack.onended (lines 714-720): the user ends the capture in the
\* browser; the handler asks for the camera.
ScreenEnded(p, k) ==
  /\ k \in DOMAIN hook[p].tracks
  /\ hook[p].tracks[k].kind = "display"
  /\ hook[p].tracks[k].live
  /\ Len(hook[p].tracks) < MaxTracks
  /\ ShareTasks(hook[p]) = {}
  /\ LET h == hook[p] IN
     Turn(p, [h EXCEPT !.tracks[k].live = FALSE,
                       !.isScreenSharing = FALSE,
                       !.tasks = @ \cup {CallTask("share_back", 0, 0, << >>, 0)}],
          {}, {}, Ev("screen-ended", p, 0, k))
  /\ UNCHANGED <<nextRoom, nStray>>

\* getUserMedia of the onended handler settles (lines 720-734).
CamBack(p, t, ok) ==
  /\ t \in hook[p].tasks
  /\ t.k = "share_back"
  /\ LET h == Without(hook[p], t)
         k == Len(h.tracks) + 1
         h1 == [h EXCEPT !.tracks = Append(@, [kind |-> "camera", live |-> TRUE])]
         h2 == ReplaceSenders(h1, k)
         h3 == IF h2.localStreamRef # 0 THEN SwapVideo(h2, k, TRUE) ELSE h2
     IN IF ok
          THEN Turn(p, h3, {}, {}, Ev("cam-back", p, 0, k))
          ELSE Turn(p, h, {}, {}, Ev("share-failed", p, 0, 0))
  /\ UNCHANGED <<nextRoom, nStray>>

\* A 1:1 call in which the caller switches between camera and screen while
\* the call is set up and runs, and ends the call at any moment.
NextShare ==
  \/ nextRoom = 0 /\ InitiateCall(1, <<2>>)
  \/ \E p \in Pair : \E t \in hook[p].tasks : MediaDone(p, t, TRUE)
  \/ \E p \in Pair : \E t \in hook[p].tasks : ChannelDone(p, t, TRUE)
  \/ \E p \in Pair : \E t \in hook[p].tasks : InviteStep(p, t)
  \/ \E p \in Pair : \E m \in net : IncomingInvite(p, m)
  \/ InvitesOver /\ AcceptCall(2)
  \/ \E p \in Pair : \E t \in hook[p].tasks : AcceptSend(p, t, TRUE)
  \/ \E p \in Pair : \E m \in net : HandleSig(p, m)
  \/ \E p \in Pair : Negotiate(p)
  \/ \E p \in Pair : \E i \in DOMAIN hook[p].pcs :
       \E to \in {"connecting", "connected"} : ConnectionState(p, i, to)
  \/ hook[1].localStreamRef # 0 /\ ToggleScreenShare(1)
  \/ \E t \in hook[1].tasks : \E ok \in BOOLEAN : ShareOn(1, t, ok)
  \/ \E t \in hook[1].tasks : \E ok \in BOOLEAN : ShareOff(1, t, ok)
  \/ \E k \in DOMAIN hook[1].tracks : ScreenEnded(1, k)
  \/ \E t \in hook[1].tasks : \E ok \in BOOLEAN : CamBack(1, t, ok)
  \/ hook[1].callState = "connected" /\ EndCall(1)
  \/ \E p \in Pair : SyncRefs(p)

SpecShare == Init /\ [][NextShare]_vars

\* C28: after a teardown every media track acquired during the session is
\* stopped: the tracks of the streams of getMedia, every display track, every
\* camera track acquired when switching back.
C28_TracksReleased ==
  [][\A p \in Pair :
       (last'.who = p /\ last'.op = "endCall" /\ hook[p].callState # "idle") =>
         /\ \A i \in DOMAIN hook[p].streams : hook'[p].streams[i] = "stopped"
         /\ \A k \in DOMAIN hook'[p].tracks : ~hook'[p].tracks[k].live]_vars

ShareOps == {"toggleScreenShare", "share-on", "share-off", "share-failed"}

\* What toggleScreenShare is not to touch in a link.
Signaling(c) == [c EXCEPT !.vtrack = 0]

\* C29: toggleScreenShare, in either direction, puts the new video track
\* into the sender of every existing link, leaves the signaling state of
\* every link, the offer-sent flags, the candidate queues and the session
\* state as they are, and sends nothing.
C29_NoRenegotiation ==
  [][\A p \in Pair :
       (last'.who = p /\ last'.op \in ShareOps /\ last' # last) =>
         /\ net' = net
         /\ hook'[p].callState = hook[p].callState
         /\ hook'[p].offerCreatedFor = hook[p].offerCreatedFor
         /\ hook'[p].pendingCandidates = hook[p].pendingCandidates
         /\ hook'[p].peerConnections = hook[p].peerConnections
         /\ DOMAIN hook'[p].pcs = DOMAIN hook[p].pcs
         /\ \A i \in DOMAIN hook[p].pcs :
              Signaling(hook'[p].pcs[i]) = Signaling(hook[p].pcs[i])
         /\ (last'.op \in {"share-on", "share-off"} /\ hook[p].localStreamRef # 0) =>
              /\ hook'[p].video = last'.arg
              /\ hook'[p].tracks[last'.arg].live
              /\ \A u \in Users : hook[p].peerConnections[u] # 0 =>
                   hook'[p].pcs[hook[p].peerConnections[u]].vtrack = last'.arg]_vars

\* The caller has switched back to the camera while its link to 2 was
\* waiting for the answer.
C29_Witness ==
  /\ last.op = "share-off" /\ last.who = 1
  /\ LinkOf(1, 2) # 0
  /\ hook[1].pcs[LinkOf(1, 2)].sig = "have-local-offer"
  /\ hook[1].pcs[LinkOf(1, 2)].vtrack = last.arg

\* ---------------------------------------------------------------------------
\* Candidate routing (C30)
\* ---------------------------------------------------------------------------

\* The 1:1 call of NextIce, accepted once the invitations are over, with the
\* candidates of the caller: they reach the callee before it has a link,
\* while its link has no remote description, and afterwards.
NextRoute ==
  \/ nextRoom = 0 /\ InitiateCall(1, <<2>>)
  \/ \E p \in Pair : \E t \in hook[p].tasks : MediaDone(p, t, TRUE)
  \/ \E p \in Pair : \E t \in hook[p].tasks : ChannelDone(p, t, TRUE)
  \/ \E p \in Pair : \E t \in hook[p].tasks : InviteStep(p, t)
  \/ \E p \in Pair : \E m \in net : IncomingInvite(p, m)
  \/ InvitesOver /\ AcceptCall(2)
  \/ \E p \in Pair : \E t \in hook[p].tasks : AcceptSend(p, t, TRUE)
  \/ \E p \in Pair : \E m \in net : HandleSig(p, m)
  \/ \E p \in Pair : Negotiate(p)
  \/ \E p \in Pair : \E i \in DOMAIN hook[p].pcs : FlushStep(p, i)
  \/ \E i \in DOMAIN hook[1].pcs : IceCandidate(1, i)
  \/ \E p \in Pair : SyncRefs(p)

SpecRoute == Init /\ [][NextRoute]_vars

\* C30: an ice-candidate from peer q is applied at once when the link to q
\* exists and has a remote description; otherwise it is appended to the end
\* of the queue of q and not applied; the queues of the other peers are left
\* as they are.
C30_Routing ==
  [][\A p \in Users : \A m \in net \ net' :
       (/\ last'.op = "ice-candidate" /\ last'.who = p /\ last'.peer = m.from
        /\ m.rcpt = p /\ m.to = p /\ m.type = "ice-candidate") =>
         LET q == m.from
             e == hook[p].peerConnections[q]
         IN /\ (e # 0 /\ hook[p].pcs[e].remote # "none") =>
                 /\ hook'[p].pcs[e].applied = Append(hook[p].pcs[e].applied, m.cand)
                 /\ hook'[p].pendingCandidates = hook[p].pendingCandidates
            /\ (e = 0 \/ hook[p].pcs[e].remote = "none") =>
                 /\ hook'[p].pendingCandidates[q] =
                      Append(hook[p].pendingCandidates[q], m.cand)
                 /\ \A i \in DOMAIN hook[p].pcs :
                      hook'[p].pcs[i].applied = hook[p].pcs[i].applied
            /\ \A u \in Users \ {q} :
                 hook'[p].pendingCandidates[u] = hook[p].pendingCandidates[u]]_vars

\* A candidate of 1 reached 2 while the link of 2 to 1 had no remote
\* description and went to the end of a queue that held one already.
C30_Witness ==
  /\ last.op = "ice-candidate" /\ last.who = 2 /\ last.peer = 1
  /\ LinkOf(2, 1) # 0
  /\ hook[2].pcs[LinkOf(2, 1)].remote = "none"
  /\ hook[2].pcs[LinkOf(2, 1)].applied = << >>
  /\ Len(hook[2].pendingCandidates[1]) = 2

\* ---------------------------------------------------------------------------
\* Idle sessions (C31)
\* ---------------------------------------------------------------------------

\* C31: whenever the session state is Idle the link table is empty, no local
\* stream is held or live, no call-room channel is open and the room id is
\* null, also after a teardown that ran while initiateCall or acceptCall was
\* waiting for the media or for the channel.
C31_IdleReleased ==
  \A p \in Pair :
    hook[p].callState = "idle" =>
      /\ NoLinks(hook[p])
      /\ hook[p].localStreamRef = 0
      /\ \A i \in DOMAIN hook[p].streams : hook[p].streams[i] = "stopped"
      /\ hook[p].callChannelRef = 0
      /\ hook[p].subs = {}
      /\ hook[p].pending = {}
      /\ hook[p].roomIdRef = 0

\* ---------------------------------------------------------------------------
\* The timer of an earlier call (C32)
\* ---------------------------------------------------------------------------

\* Participant 1 calls 2, ends the call once its invitations are out, and
\* calls again; the timers of both calls expire at any moment after they
\* were armed. Each call starts from a session that is idle with nothing
\* suspended.
NextRedial ==
  \/ /\ hook[1].callState = "idle"
     /\ hook[1].callStateRef = "idle"
     /\ hook[1].tasks = {}
     /\ InitiateCall(1, <<2>>)
  \/ \E t \in hook[1].tasks : MediaDone(1, t, TRUE)
  \/ \E t \in hook[1].tasks : ChannelDone(1, t, TRUE)
  \/ \E t \in hook[1].tasks : InviteStep(1, t)
  \/ \E m \in net : Lose(m)
  \/ hook[1].callState = "ringing" /\ hook[1].tasks = {} /\ EndCall(1)
  \/ \E r \in Rooms : TimerFire(1, r)
  \/ SyncRefs(1)

SpecRedial == Init /\ [][NextRedial]_vars

\* C32: the ringing timeout tears down only the call that armed it.
C32_OwnTimer ==
  [][\A p \in Pair :
       (last'.who = p /\ last'.op \in {"timeout", "timer-ignored"} /\ last' # last
        /\ hook[p].roomIdRef # last'.arg) =>
         /\ hook'[p].callState = hook[p].callState
         /\ Session(hook'[p]) = Session(hook[p])]_vars

\* ---------------------------------------------------------------------------
\* Offer-sent flags and links (C33)
\* ---------------------------------------------------------------------------

\* C33: a peer id has an offer-sent flag only if the link table holds a link
\* to that peer.
C33_FlagFollowsLink ==
  \A p \in Users : \A q \in hook[p].offerCreatedFor : hook[p].peerConnections[q] # 0

\* ---------------------------------------------------------------------------
\* Duplicate call-accept (C34)
\* ---------------------------------------------------------------------------

\* C34: whenever the offer-sent flag is set for a peer, the link stored for
\* that peer is the one the offer was (or is being) created on, so that the
\* answer of the peer finds it.
C34_OfferOnStoredLink ==
  \A p \in Pair : \A q \in hook[p].offerCreatedFor :
    LinkOf(p, q) # 0 => LinkOf(p, q) \in Offering(hook[p], q)

\* ---------------------------------------------------------------------------
\* Accepting a call that is over (C35)
\* ---------------------------------------------------------------------------

\* The caller is back to Idle with nothing suspended and no invitation of
\* it under way.
CallerGone ==
  /\ nextRoom = 1
  /\ hook[1].callState = "idle"
  /\ hook[1].tasks = {}
  /\ InvitesOver

\* Participant 1 calls 2 and, once the invitations are out, ends the call or
\* lets the 60 s pass; 2 accepts the invitation it still shows (no signal is
\* in flight then: nobody else is subscribed to the room). Every enabled
\* step is eventually taken.
NextStale ==
  \/ nextRoom = 0 /\ InitiateCall(1, <<2>>)
  \/ \E p \in Pair : \E t \in hook[p].tasks : MediaDone(p, t, TRUE)
  \/ \E p \in Pair : \E t \in hook[p].tasks : ChannelDone(p, t, TRUE)
  \/ \E p \in Pair : \E t \in hook[p].tasks : InviteStep(p, t)
  \/ \E p \in Pair : \E m \in net : IncomingInvite(p, m)
  \/ hook[1].callState = "ringing" /\ hook[1].tasks = {} /\ EndCall(1)
  \/ \E r \in Rooms : hook[1].tasks = {} /\ TimerFire(1, r)
  \/ CallerGone /\ AcceptCall(2)
  \/ \E p \in Pair : \E t \in hook[p].tasks : AcceptSend(p, t, TRUE)
  \/ \E p \in Pair : SyncRefs(p)

SpecStale == Init /\ [][NextStale]_vars /\ WF_vars(NextStale)

\* C35: a session that is Ringing or Connecting eventually is Connected or
\* Idle, at the caller and at the callee.
C35_NotStuck ==
  \A p \in Pair :
    (hook[p].callState \in {"ringing", "connecting"}) ~>
      (hook[p].callState \in {"connected", "idle"})

\* ---------------------------------------------------------------------------
\* Two invitations (C36)
\* ---------------------------------------------------------------------------

\* Participants 1 and 3 each call participant 2, who answers neither or
\* rejects what it shows.
NextTwo ==
  \/ \E p \in {1, 3} : hook[p].callState = "idle" /\ hook[p].tasks = {} /\ InitiateCall(p, <<2>>)
  \/ \E p \in {1, 3} : \E t \in hook[p].tasks : MediaDone(p, t, TRUE)
  \/ \E p \in {1, 3} : \E t \in hook[p].tasks : ChannelDone(p, t, TRUE)
  \/ \E p \in {1, 3} : \E t \in hook[p].tasks : InviteStep(p, t)
  \/ \E m \in net : IncomingInvite(2, m)
  \/ RejectCall(2)
  \/ \E t \in hook[2].tasks : RejectSend(2, t)
  \/ \E p \in {1, 3} : \E m \in net : HandleSig(p, m)
  \/ \E p \in Users : SyncRefs(p)

SpecTwo == Init /\ [][NextTwo]_vars

\* C36: a pending incoming invitation changes only through acceptCall or
\* rejectCall of the participant; an invitation for another room does not
\* replace it.
C36_PendingStable ==
  [][\A p \in Users :
       (hook[p].incomingCall # NoCall /\ hook'[p].incomingCall # hook[p].incomingCall) =>
         (last'.who = p /\ last'.op \in {"acceptCall", "rejectCall"})]_vars

\* ---------------------------------------------------------------------------
\* acceptCall during a call (C37)
\* ---------------------------------------------------------------------------

\* C37: acceptCall called while the participant is Ringing, Connecting or
\* Connected in a call of its own changes no room id and starts no second
\* media acquisition or channel.
C37_AcceptFromIdle ==
  [][\A p \in Pair :
       (last'.who = p /\ last'.op = "acceptCall" /\ last' # last
        /\ hook[p].callState # "idle") =>
         /\ hook'[p].roomIdRef = hook[p].roomIdRef
         /\ hook'[p].callState = hook[p].callState
         /\ hook'[p].tasks = hook[p].tasks]_vars

\* ---------------------------------------------------------------------------
\* initiateCall during a call (C38)
\* ---------------------------------------------------------------------------

\* C38: initiateCall called while the session is not Idle, also before the
\* effect has copied the new state into callStateRef, generates no room id,
\* starts nothing and leaves the session as it is.
C38_InitiateFromIdle ==
  [][\A p \in Pair :
       (last'.who = p /\ last'.op \in {"initiateCall", "initiateCall-ignored"}
        /\ last' # last /\ hook[p].callState # "idle") =>
         /\ nextRoom' = nextRoom
         /\ hook'[p].roomIdRef = hook[p].roomIdRef
         /\ hook'[p].callState = hook[p].callState
         /\ hook'[p].tasks = hook[p].tasks]_vars

\* ---------------------------------------------------------------------------
\* Invitations of a call that is over (C39)
\* ---------------------------------------------------------------------------

\* Participant 1 calls 2 and hangs up at any moment after its call room is
\* subscribed; 2 does not answer.
NextHangup ==
  \/ nextRoom = 0 /\ InitiateCall(1, <<2>>)
  \/ \E t \in hook[1].tasks : MediaDone(1, t, TRUE)
  \/ \E t \in hook[1].tasks : ChannelDone(1, t, TRUE)
  \/ \E t \in hook[1].tasks : InviteStep(1, t)
  \/ \E m \in net : IncomingInvite(2, m)
  \/ hook[1].callChannelRef # 0 /\ EndCall(1)
  \/ \E p \in Pair : \E t \in hook[p].tasks : ExpireDedup(p, t)
  \/ \E m \in net : Lose(m)
  \/ \E p \in Pair : SyncRefs(p)

SpecHangup == Init /\ [][NextHangup]_vars

\* C39: a call-invite for room R is sent only while the session of the
\* initiator for room R is up.
C39_NoLateInvite ==
  [][\A p \in Pair :
       (last'.who = p /\ last'.op = "invite" /\ last' # last) =>
         \A t \in hook[p].tasks :
           (t.k = "invite" /\ t.peer = last'.peer /\ t.i + 1 = last'.arg) =>
             /\ hook[p].callState # "idle"
             /\ hook[p].roomIdRef = t.room]_vars

\* ---------------------------------------------------------------------------
\* Connected sessions (C40)
\* ---------------------------------------------------------------------------

\* C40: whenever the session state is Connected the link table holds a link
\* whose health is connected.
C40_ConnectedBacked ==
  \A p \in Users :
    hook[p].callState = "connected" =>
      \E q \in Users : /\ LinkOf(p, q) # 0
                       /\ hook[p].pcs[LinkOf(p, q)].conn = "connected"

====
